---- MODULE Spec2Model ----
(***************************************************************************)
(* Model of the WePower IoT BLE decode pipeline (packet_parser.py) and of  *)
(* the BLE coordinator (ble_coordinator.py).                               *)
(*                                                                         *)
(* Python values are represented as follows:                               *)
(*   bytes        sequence of integers 0..255                              *)
(*   str          sequence of one-character strings                        *)
(*   dict         function from key strings to values ({} = EmptyDict)     *)
(*   None / x     NoneVal = << >>, a present value x = << x >>             *)
(*   call result  [exc |-> "" or the exception's name, val |-> result]     *)
(***************************************************************************)
EXTENDS Integers, Sequences, FiniteSets, TLC

VARIABLES
    \* ---- coordinator (ble_coordinator.py) ----
    address,              \* self.address
    data,                 \* self.data
    last_update_success,  \* self.last_update_success
    entry,                \* self._entry: [entry_id, data]
    \* ---- host collaborators ----
    now,                  \* wall clock, seconds
    pollDue,              \* due times of the timers registered by async_init
    history,              \* the scanner's record: indices into ServiceInfos, in order
    lastOp,               \* the operation that ran last and its input
    \* ---- decode pipeline exercised on its own ----
    pin,                  \* the input drawn for the pure functions
    pout,                 \* the function applied last and what it returned
    \* ---- device_management.py ----
    manager,              \* the device manager, the objects it created and its host
    \* ---- two coordinators side by side ----
    coordinators,         \* the coordinators of two config entries
    \* ---- ble_binary_sensor.py ----
    sensor                \* the binary sensor entity listening to the coordinator

vars == <<address, data, last_update_success, entry,
          now, pollDue, history, lastOp, pin, pout, manager, coordinators,
          sensor>>

coordVars == <<address, data, last_update_success, entry,
               now, pollDue, history, lastOp>>

parserVars == <<pin, pout>>

-----------------------------------------------------------------------------
(* Python values *)

NoneVal == << >>

Some(x) == << x >>

EmptyDict == [k \in {} |-> 0]

Truthy(d) == DOMAIN d # {}

\* dict.update
DictUpdate(d, e) ==
    [k \in (DOMAIN d) \cup (DOMAIN e) |-> IF k \in DOMAIN e THEN e[k] ELSE d[k]]

Return(v) == [exc |-> "", val |-> Some(v)]

Raise(e) == [exc |-> e, val |-> NoneVal]

Raised(r) == r.exc # ""

Val(r) == r.val[1]

Min(S) == CHOOSE x \in S : \A y \in S : x <= y

-----------------------------------------------------------------------------
(* Text: hexadecimal formatting and parsing, upper-casing *)

HexDigits == <<"0", "1", "2", "3", "4", "5", "6", "7",
               "8", "9", "A", "B", "C", "D", "E", "F">>

LowerLetters == <<"a", "b", "c", "d", "e", "f", "g", "h", "i", "j", "k", "l", "m",
                  "n", "o", "p", "q", "r", "s", "t", "u", "v", "w", "x", "y", "z">>

UpperLetters == <<"A", "B", "C", "D", "E", "F", "G", "H", "I", "J", "K", "L", "M",
                  "N", "O", "P", "Q", "R", "S", "T", "U", "V", "W", "X", "Y", "Z">>

LowerSet == {LowerLetters[i] : i \in DOMAIN LowerLetters}

UpperOf == [c \in LowerSet |->
              UpperLetters[CHOOSE i \in DOMAIN LowerLetters : LowerLetters[i] = c]]

\* str.upper() on one character
UpperChar(c) == IF c \in LowerSet THEN UpperOf[c] ELSE c

\* str.upper()
StrUpper(s) == [i \in DOMAIN s |-> UpperChar(s[i])]

\* s.startswith(p)
StartsWith(s, p) == Len(s) >= Len(p) /\ SubSeq(s, 1, Len(p)) = p

\* p in s
Contains(s, p) ==
    \E i \in 1..(Len(s) - Len(p) + 1) : SubSeq(s, i, i + Len(p) - 1) = p

\* s.replace(c, "") for a one-character c
StrRemove(s, c) == SelectSeq(s, LAMBDA x : x # c)

\* s[-n:]
StrLast(s, n) == IF Len(s) <= n THEN s ELSE SubSeq(s, Len(s) - n + 1, Len(s))

\* bytes.hex().upper()
HexUpper(bs) ==
    [i \in 1..(2 * Len(bs)) |->
        IF i % 2 = 1 THEN HexDigits[(bs[(i + 1) \div 2] \div 16) + 1]
                     ELSE HexDigits[(bs[i \div 2] % 16) + 1]]

\* the hexadecimal digits, in either case
HexChars == {HexDigits[i] : i \in DOMAIN HexDigits} \cup {"a", "b", "c", "d", "e", "f"}

HexValueOf == [c \in HexChars |->
                 (CHOOSE i \in DOMAIN HexDigits : HexDigits[i] = UpperChar(c)) - 1]

IsHexChar(c) == c \in HexChars

HexCharValue(c) == HexValueOf[c]

RECURSIVE HexStrValue(_)
HexStrValue(s) ==
    IF Len(s) = 0 THEN 0
    ELSE 16 * HexStrValue(SubSeq(s, 1, Len(s) - 1)) + HexCharValue(s[Len(s)])

\* int(s, 16): the most significant digit comes first; ValueError on an
\* empty string or a non-hexadecimal character
IntBase16(s) ==
    IF Len(s) = 0 \/ \E i \in DOMAIN s : ~IsHexChar(s[i])
    THEN Raise("ValueError")
    ELSE Return(HexStrValue(s))

\* the ASCII whitespace bytes.fromhex skips
AsciiWhitespace == {" ", "\t", "\n", "\r", "\f"}

\* the bytes of the hexadecimal digits h, which are s with its whitespace
\* taken out: ValueError when a digit that starts a byte is not directly
\* followed by a digit
HexPairs(s, h) ==
    IF \/ Len(h) % 2 # 0
       \/ /\ Len(h) # Len(s)
          /\ \E i \in DOMAIN s :
                /\ IsHexChar(s[i])
                /\ Cardinality({j \in 1..(i - 1) : IsHexChar(s[j])}) % 2 = 0
                /\ (i = Len(s) \/ ~IsHexChar(s[i + 1]))
    THEN Raise("ValueError")
    ELSE Return([i \in 1..(Len(h) \div 2) |->
                    16 * HexCharValue(h[2 * i - 1]) + HexCharValue(h[2 * i])])

\* bytes.fromhex(s): whitespace between the bytes is skipped
BytesFromHex(s) ==
    IF \E i \in DOMAIN s : ~IsHexChar(s[i]) /\ s[i] \notin AsciiWhitespace
    THEN Raise("ValueError")
    ELSE HexPairs(s, SelectSeq(s, IsHexChar))

\* f"{n:03d}"
Format03d(n) ==
    IF n < 1000
    THEN <<HexDigits[(n \div 100) + 1], HexDigits[((n \div 10) % 10) + 1],
           HexDigits[(n % 10) + 1]>>
    ELSE <<"?">>

-----------------------------------------------------------------------------
(* packet_parser.py *)

COMPANY_ID == 22352

PACKET_LENGTH == 16

ENCRYPTED_DATA_SIZE == 16

\* flags_byte >> n
ShiftRight(b, n) == b \div (2 ^ n)

\* flags whose payload length is taken from three bits only
WePowerPacketFlagsNarrow(flags_byte) ==
    [encrypt_status      |-> flags_byte % 2,
     self_external_power |-> ShiftRight(flags_byte, 1) % 2,
     event_counter_lsb   |-> ShiftRight(flags_byte, 2) % 4,
     payload_length      |-> ShiftRight(flags_byte, 4) % 8]

WePowerPacketFlags(flags_byte) ==
    [encrypt_status      |-> flags_byte % 2,
     self_external_power |-> ShiftRight(flags_byte, 1) % 2,
     event_counter_lsb   |-> ShiftRight(flags_byte, 2) % 4,
     payload_length      |-> ShiftRight(flags_byte, 4) % 16]

WePowerEncryptedData(bs) ==
    IF Len(bs) # ENCRYPTED_DATA_SIZE
    THEN Raise("ValueError")
    ELSE Return([data_bytes  |-> bs,
                 src_id      |-> SubSeq(bs, 1, 3),
                 nwk_id      |-> SubSeq(bs, 4, 5),
                 fw_version  |-> bs[6],
                 sensor_type |-> SubSeq(bs, 7, 8),
                 payload     |-> SubSeq(bs, 9, 16)])

\* WePowerPacket.__init__: flags and crc are left None
PacketOf(raw_data, ed) ==
    IF Raised(ed) THEN Raise(ed.exc)
    ELSE Return([raw_data       |-> raw_data,
                 company_id     |-> COMPANY_ID,
                 flags          |-> NoneVal,
                 encrypted_data |-> Val(ed),
                 crc            |-> NoneVal])

WePowerPacket(raw_data) ==
    IF Len(raw_data) < PACKET_LENGTH
    THEN Raise("ValueError")
    ELSE PacketOf(raw_data, WePowerEncryptedData(raw_data))

is_valid_company_id(packet) == packet.company_id = COMPANY_ID

validate_crc(packet) == TRUE

\* bit i of a byte
Bit(x, i) == (x \div (2 ^ i)) % 2

\* a ^ b on bytes
BitXor == [a \in 0..255 |-> [b \in 0..255 |->
            ((Bit(a, 0) + Bit(b, 0)) % 2)
          + ((Bit(a, 1) + Bit(b, 1)) % 2) * 2
          + ((Bit(a, 2) + Bit(b, 2)) % 2) * 4
          + ((Bit(a, 3) + Bit(b, 3)) % 2) * 8
          + ((Bit(a, 4) + Bit(b, 4)) % 2) * 16
          + ((Bit(a, 5) + Bit(b, 5)) % 2) * 32
          + ((Bit(a, 6) + Bit(b, 6)) % 2) * 64
          + ((Bit(a, 7) + Bit(b, 7)) % 2) * 128]]

\* a pass that shifts and never xors the polynomial in
Crc8ShiftOnly == [crc \in 0..255 |-> (crc * 2) % 256]

\* one pass of the inner loop: shift left, xor the polynomial 0x07 in when
\* the top bit was set, keep eight bits
Crc8Shift == [crc \in 0..255 |->
                IF crc \div 128 = 1 THEN BitXor[(crc * 2) % 256][7]
                                    ELSE (crc * 2) % 256]

\* the eight passes made for one input byte
Crc8Byte == [crc \in 0..255 |->
    Crc8Shift[Crc8Shift[Crc8Shift[Crc8Shift[Crc8Shift[Crc8Shift[Crc8Shift[Crc8Shift[crc]]]]]]]]]

\* _calculate_crc8: initial value 0, one xor and eight shifts per byte
calculate_crc8(bs) ==
    LET crc[i \in 0..Len(bs)] ==
            IF i = 0 THEN 0 ELSE Crc8Byte[BitXor[crc[i - 1]][bs[i]]]
    IN crc[Len(bs)]

\* The AES-128-ECB decryption of the cryptography package, which is not part
\* of the repository: a key of 16, 24 or 32 bytes is accepted, any other
\* size raises ValueError; the block transformation is represented by a
\* key-dependent permutation of the 16-byte blocks.
AesEcbDecrypt(key, block) ==
    IF Len(key) \notin {16, 24, 32}
    THEN Raise("ValueError")
    ELSE Return([i \in 1..Len(block) |->
                    (block[Len(block) + 1 - i] + 256 - key[((i - 1) % Len(key)) + 1]) % 256])

\* a cipher step that decrypts whatever the flag says
DecryptedBytesAlwaysCipher(flags, data_bytes, decryption_key) ==
    IF decryption_key = NoneVal
    THEN Raise("TypeError")
    ELSE AesEcbDecrypt(decryption_key[1], data_bytes)

\* decrypt_payload, the cipher step: the block as it is when the flag says
\* plaintext (encrypt_status = 1), else the AES decryption under the key
DecryptedBytes(flags, data_bytes, decryption_key) ==
    IF flags.encrypt_status = 1
    THEN Return(data_bytes)
    ELSE IF decryption_key = NoneVal
         THEN Raise("TypeError")
         ELSE AesEcbDecrypt(decryption_key[1], data_bytes)

\* decrypt_payload, the dictionary built from the parsed cleartext
DecryptedDict(flags, dp) ==
    IF Raised(dp) THEN NoneVal
    ELSE Some([src_id            |-> HexUpper(Val(dp).src_id),
               nwk_id            |-> HexUpper(Val(dp).nwk_id),
               fw_version        |-> Val(dp).fw_version,
               sensor_type       |-> HexUpper(Val(dp).sensor_type),
               payload           |-> HexUpper(Val(dp).payload),
               event_counter_lsb |-> flags.event_counter_lsb,
               payload_length    |-> flags.payload_length,
               encrypt_status    |-> flags.encrypt_status,
               power_status      |-> flags.self_external_power])

DecryptedFields(flags, dec) ==
    IF Raised(dec) THEN NoneVal
    ELSE DecryptedDict(flags, WePowerEncryptedData(Val(dec)))

\* decrypt_payload: every exception is caught and None is returned; with
\* flags left None the first attribute access raises AttributeError
decrypt_payload(packet, decryption_key) ==
    IF packet.flags = NoneVal
    THEN NoneVal
    ELSE DecryptedFields(packet.flags[1],
                         DecryptedBytes(packet.flags[1],
                                        packet.encrypted_data.data_bytes,
                                        decryption_key))

\* struct.unpack('<I', b)[0] for four bytes
UnpackLittleEndianU32(b) == b[1] + 256 * b[2] + 65536 * b[3] + 16777216 * b[4]

\* a leak reported for every non-zero event byte
LeakFieldsAnyEvent(payload) ==
    IF Len(payload) >= 4
    THEN [event_counter |-> UnpackLittleEndianU32(SubSeq(payload, 1, 3) \o <<0>>),
          sensor_event  |-> payload[4],
          leak_detected |-> (payload[4] # 0)]
    ELSE EmptyDict

\* the fields added for sensor type 4
LeakFields(payload) ==
    IF Len(payload) >= 4
    THEN [event_counter |-> UnpackLittleEndianU32(SubSeq(payload, 1, 3) \o <<0>>),
          sensor_event  |-> payload[4],
          leak_detected |-> (payload[4] = 1)]
    ELSE EmptyDict

\* telemetry only for the codes of the device table
SensorDataKnownOnly(decrypted_data, sensor_type, payload) ==
    IF sensor_type \in 1..9
    THEN [sensor_type       |-> sensor_type,
          event_counter_lsb |-> decrypted_data.event_counter_lsb,
          payload_length    |-> decrypted_data.payload_length,
          encrypt_status    |-> decrypted_data.encrypt_status,
          power_status      |-> decrypted_data.power_status]
    ELSE EmptyDict

SensorData(decrypted_data, sensor_type, payload) ==
    IF sensor_type = 4
    THEN DictUpdate([sensor_type       |-> sensor_type,
                     event_counter_lsb |-> decrypted_data.event_counter_lsb,
                     payload_length    |-> decrypted_data.payload_length,
                     encrypt_status    |-> decrypted_data.encrypt_status,
                     power_status      |-> decrypted_data.power_status],
                    LeakFields(payload))
    ELSE [sensor_type       |-> sensor_type,
          event_counter_lsb |-> decrypted_data.event_counter_lsb,
          payload_length    |-> decrypted_data.payload_length,
          encrypt_status    |-> decrypted_data.encrypt_status,
          power_status      |-> decrypted_data.power_status]

\* parse_sensor_data (the dictionary it is given comes from decrypt_payload)
parse_sensor_data(decrypted_data) ==
    SensorData(decrypted_data,
               Val(IntBase16(decrypted_data.sensor_type)),
               Val(BytesFromHex(decrypted_data.payload)))

\* parse_wepower_packet, after decrypt_payload
PacketResult(packet, dd) ==
    IF dd # NoneVal
    THEN Some([company_id     |-> packet.company_id,
               flags          |-> packet.flags[1],
               crc            |-> packet.crc,
               decrypted_data |-> dd[1],
               sensor_data    |-> parse_sensor_data(dd[1])])
    ELSE Some([company_id |-> packet.company_id,
               flags      |-> packet.flags[1],
               crc        |-> packet.crc])

\* parse_wepower_packet, after the packet was constructed: building the
\* result reads packet.flags, which is None (AttributeError)
ParsePacket(packet, decryption_key) ==
    IF ~is_valid_company_id(packet) THEN NoneVal
    ELSE IF ~validate_crc(packet) THEN NoneVal
    ELSE IF packet.flags = NoneVal THEN NoneVal
    ELSE PacketResult(packet,
                      IF decryption_key # NoneVal /\ decryption_key # Some(<< >>)
                      THEN decrypt_payload(packet, decryption_key)
                      ELSE NoneVal)

ConstructedPacket(p, decryption_key) ==
    IF Raised(p) THEN NoneVal ELSE ParsePacket(Val(p), decryption_key)

\* a parser whose constructor error leaves the function
ParseCallUncaught(p, decryption_key) ==
    IF Raised(p) THEN Raise(p.exc) ELSE Return(ParsePacket(Val(p), decryption_key))

\* the call of parse_wepower_packet as its caller sees it: a value is
\* returned, every exception of the body having been caught
ParseCall(p, decryption_key) == Return(ConstructedPacket(p, decryption_key))

\* a parser that decodes the first 18 bytes of whatever it is given
parse_wepower_packet_lenient(manufacturer_data, decryption_key) ==
    IF Len(manufacturer_data) < 18
    THEN NoneVal
    ELSE ParsePacket([Val(WePowerPacket(SubSeq(manufacturer_data, 2, 17))) EXCEPT
                         !.flags = Some(WePowerPacketFlags(manufacturer_data[1]))],
                     decryption_key)

\* parse_wepower_packet: None on every exception
parse_wepower_packet(manufacturer_data, decryption_key) ==
    ConstructedPacket(WePowerPacket(manufacturer_data), decryption_key)

-----------------------------------------------------------------------------
(* ble_coordinator.py: parsing *)

BLE_COMPANY_ID == 22352

FALLBACK_POLL_INTERVAL == 60

CONF_ADDRESS == "address"

CONF_DECRYPTION_KEY == "decryption_key"

DiscoveryPrefix ==
    <<"w", "e", "p", "o", "w", "e", "r", "_",
      "d", "i", "s", "c", "o", "v", "e", "r", "y", "_">>

PlaceholderAddress ==
    <<"0", "0", ":", "0", "0", ":", "0", "0", ":", "0", "0", ":", "0", "0", ":", "0", "0">>

\* datetime.now().isoformat()
IsoFormat(t) == <<"T", t>>

\* bytes.fromhex of the stored key: None when it is not valid hex
KeyBytes(k) == IF Raised(k) THEN NoneVal ELSE Some(Val(k))

\* the decryption key read from the config entry: None when the entry has
\* none
EntryDecryptionKey(e) ==
    IF CONF_DECRYPTION_KEY \in DOMAIN e.data
    THEN KeyBytes(BytesFromHex(e.data[CONF_DECRYPTION_KEY]))
    ELSE NoneVal

\* the sensor values copied to the top level of the result
SensorValues(sensor_data) ==
    [k \in {"leak_detected", "event_counter", "sensor_event"} \cap DOMAIN sensor_data
        |-> sensor_data[k]]

PacketStructure(bs) ==
    [company_id |-> 22352,
     flags      |-> bs[1],
     crc        |-> bs[18],
     packet_structure |-> [company_id |-> 22352,
                           flags      |-> bs[1],
                           encrypted_data_length |-> Len(SubSeq(bs, 2, 17)),
                           crc        |-> bs[18]]]

\* the parser's dictionary merged into the result
MergeParsed(result, pp) ==
    DictUpdate(
        DictUpdate(result,
                   [k \in {"decrypted_data", "sensor_data"} \cap DOMAIN pp |-> pp[k]]),
        IF "sensor_data" \in DOMAIN pp THEN SensorValues(pp.sensor_data) ELSE EmptyDict)

ManufacturerResult(bs, parsed_packet) ==
    IF parsed_packet = NoneVal
    THEN EmptyDict
    ELSE MergeParsed(PacketStructure(bs), parsed_packet[1])

\* _parse_wepower_manufacturer_data: the whole frame is handed to the parser
parse_wepower_manufacturer_data(e, bs) ==
    IF Len(bs) < 18
    THEN EmptyDict
    ELSE ManufacturerResult(bs, parse_wepower_packet(bs, EntryDecryptionKey(e)))

\* a table that takes every code above 5 for a plain on/off switch
DeviceTypeOfCoarse(sensor_type) ==
    CASE sensor_type = 1 -> "temperature_sensor"
      [] sensor_type = 2 -> "humidity_sensor"
      [] sensor_type = 3 -> "pressure_sensor"
      [] sensor_type = 4 -> "leak_sensor"
      [] sensor_type = 5 -> "vibration_sensor"
      [] OTHER -> "on_off_switch"

\* the device_type table of _parse_advertisement_data
DeviceTypeOf(sensor_type) ==
    CASE sensor_type = 1 -> "temperature_sensor"
      [] sensor_type = 2 -> "humidity_sensor"
      [] sensor_type = 3 -> "pressure_sensor"
      [] sensor_type = 4 -> "leak_sensor"
      [] sensor_type = 5 -> "vibration_sensor"
      [] sensor_type = 6 -> "on_off_switch"
      [] sensor_type = 7 -> "light_switch"
      [] sensor_type = 8 -> "door_switch"
      [] sensor_type = 9 -> "toggle_switch"
      [] OTHER -> "unknown"

DeviceNameOf(sensor_type) ==
    CASE sensor_type = 1 -> "WePower Temperature Sensor "
      [] sensor_type = 2 -> "WePower Humidity Sensor "
      [] sensor_type = 3 -> "WePower Pressure Sensor "
      [] sensor_type = 4 -> "WePower Leak Sensor "
      [] sensor_type = 5 -> "WePower Vibration Sensor "
      [] sensor_type = 6 -> "WePower On/Off Switch "
      [] sensor_type = 7 -> "WePower Light Switch "
      [] sensor_type = 8 -> "WePower Door Switch "
      [] sensor_type = 9 -> "WePower Toggle Switch "
      [] OTHER -> ""

\* the record before the manufacturer data is looked at
BaseRecord(service_info, professional_id, t) ==
    [address         |-> service_info.address,
     name            |-> IF Len(service_info.name) > 0
                         THEN service_info.name
                         ELSE <<"WePower IoT Device ">> \o professional_id,
     rssi            |-> service_info.rssi,
     timestamp       |-> IsoFormat(t),
     device_type     |-> "unknown",
     sensor_data     |-> EmptyDict,
     battery_level   |-> NoneVal,
     signal_strength |-> service_info.rssi]

\* the result of the WePower manufacturer data, if the advertisement has any
ParsedManufacturerData(e, md) ==
    IF BLE_COMPANY_ID \in DOMAIN md
    THEN parse_wepower_manufacturer_data(e, md[BLE_COMPANY_ID])
    ELSE EmptyDict

\* data.update(parsed_data), only for a non-empty result
Merged(base, parsed) == IF Truthy(parsed) THEN DictUpdate(base, parsed) ELSE base

\* device type and name from the decoded sensor type
Typed(d, professional_id) ==
    IF "sensor_type" \in DOMAIN d.sensor_data /\ d.sensor_data.sensor_type \in 1..9
    THEN DictUpdate(d, [device_type |-> DeviceTypeOf(d.sensor_data.sensor_type),
                        name        |-> <<DeviceNameOf(d.sensor_data.sensor_type)>>
                                        \o professional_id])
    ELSE d

RecordOf(e, service_info, professional_id, t) ==
    Typed(Merged(BaseRecord(service_info, professional_id, t),
                 ParsedManufacturerData(e, service_info.manufacturer_data)),
          professional_id)

DeviceNumber(e, service_info, n, t) ==
    IF Raised(n) THEN Raise(n.exc)
    ELSE Return(RecordOf(e, service_info, <<"Unit-">> \o Format03d(Val(n) % 1000), t))

\* _parse_advertisement_data: raises ValueError when the last six characters
\* of the address are not a hexadecimal number
parse_advertisement_data(e, service_info, t) ==
    DeviceNumber(e, service_info,
                 IntBase16(StrLast(StrUpper(StrRemove(service_info.address, ":")), 6)),
                 t)

\* _is_wepower_device of the coordinator
is_wepower_device(discovery_info) ==
    \/ \E id \in DOMAIN discovery_info.manufacturer_data :
          id = BLE_COMPANY_ID /\ Len(discovery_info.manufacturer_data[id]) >= 20
    \/ Contains(StrUpper(discovery_info.name), <<"W", "E", "P", "O", "W", "E", "R">>)
    \/ Contains(StrUpper(discovery_info.name), <<"W", "P">>)

\* _is_wepower_device of the configuration flow (config_flow.py)
config_flow_is_wepower_device(discovery_info) ==
    \/ \E id \in DOMAIN discovery_info.manufacturer_data :
          id = BLE_COMPANY_ID /\ Len(discovery_info.manufacturer_data[id]) >= 18
    \/ Contains(StrUpper(discovery_info.name), <<"W", "E", "P", "O", "W", "E", "R">>)
    \/ Contains(StrUpper(discovery_info.name), <<"W", "P">>)

\* the key validation of async_step_ble (config_flow.py) and of
\* async_step_user (ble_config_flow.py), which are the same statements: the
\* error of the form shown again, or the key kept for the entry that the
\* device selection step creates
async_step_ble(decryption_key) ==
    IF Raised(BytesFromHex(decryption_key))
    THEN [errors |-> "invalid_decryption_key_format", decryption_key |-> NoneVal]
    ELSE IF Len(decryption_key) # 32
    THEN [errors |-> "invalid_decryption_key_length", decryption_key |-> NoneVal]
    ELSE [errors |-> "", decryption_key |-> Some(decryption_key)]

-----------------------------------------------------------------------------
(* ble_coordinator.py: the coordinator's operations.  self is the record   *)
(* [address, data, last_update_success, entry]; each operation returns the *)
(* coordinator after it, the exception that ended it (caught or not), the  *)
(* number of async_update_listeners calls it made and whether it           *)
(* registered the recurring check.                                         *)

Outcome(self, exc, notified, registered) ==
    [self |-> self, exc |-> exc, notified |-> notified, registered |-> registered]

\* a coordinator that takes the configured address as it is written
NewCoordinatorAsConfigured(e) ==
    LET configured == CONF_ADDRESS \in DOMAIN e.data
                      /\ Len(e.data[CONF_ADDRESS]) > 0
                      /\ e.data[CONF_ADDRESS] # PlaceholderAddress
    IN [address             |-> IF configured THEN e.data[CONF_ADDRESS]
                                ELSE DiscoveryPrefix \o e.entry_id,
        data                |-> EmptyDict,
        last_update_success |-> TRUE,
        entry               |-> e]

\* __init__
NewCoordinator(e) ==
    LET configured == CONF_ADDRESS \in DOMAIN e.data
                      /\ Len(e.data[CONF_ADDRESS]) > 0
                      /\ e.data[CONF_ADDRESS] # PlaceholderAddress
    IN [address             |-> IF configured THEN StrUpper(e.data[CONF_ADDRESS])
                                ELSE DiscoveryPrefix \o e.entry_id,
        data                |-> EmptyDict,
        last_update_success |-> TRUE,
        entry               |-> e]

\* async_last_service_info of the host: the service info recorded for
\* exactly this address, or None
async_last_service_info(hist, addr) ==
    IF \E j \in DOMAIN hist : hist[j].address = addr
    THEN Some(hist[CHOOSE j \in DOMAIN hist : hist[j].address = addr])
    ELSE NoneVal

\* the record stored, the flag left as it was
HandledEventKeepsFlag(self, parsed) ==
    IF Raised(parsed)
    THEN Outcome([self EXCEPT !.last_update_success = FALSE], parsed.exc, 0, FALSE)
    ELSE Outcome([self EXCEPT !.data = Val(parsed)], "", 1, FALSE)

\* a handler that stores and announces a record only when it carries
\* decoded sensor data
HandledEventDecodedOnly(self, parsed) ==
    IF Raised(parsed)
    THEN Outcome([self EXCEPT !.last_update_success = FALSE], parsed.exc, 0, FALSE)
    ELSE IF Val(parsed).sensor_data = EmptyDict
    THEN Outcome(self, "", 0, FALSE)
    ELSE Outcome([self EXCEPT !.data = Val(parsed), !.last_update_success = TRUE],
                 "", 1, FALSE)

\* a handler that announces a record only when it differs from the one held
HandledEventOnChange(self, parsed) ==
    IF Raised(parsed)
    THEN Outcome([self EXCEPT !.last_update_success = FALSE], parsed.exc, 0, FALSE)
    ELSE Outcome([self EXCEPT !.data = Val(parsed), !.last_update_success = TRUE],
                 "", IF Val(parsed) = self.data THEN 0 ELSE 1, FALSE)

\* the record and the flag set from a parsed advertisement, or the flag
\* alone cleared when parsing raised
HandledEvent(self, parsed) ==
    IF Raised(parsed)
    THEN Outcome([self EXCEPT !.last_update_success = FALSE], parsed.exc, 0, FALSE)
    ELSE Outcome([self EXCEPT !.data = Val(parsed), !.last_update_success = TRUE],
                 "", 1, FALSE)

\* _async_handle_bluetooth_event
async_handle_bluetooth_event(self, service_info, t) ==
    HandledEvent(self, parse_advertisement_data(self.entry, service_info, t))

\* a check that drops the record it finds
async_schedule_poll_clearing(self) ==
    IF Truthy(self.data)
    THEN Outcome([self EXCEPT !.data = EmptyDict, !.last_update_success = FALSE],
                 "", 0, FALSE)
    ELSE Outcome([self EXCEPT !.last_update_success = FALSE], "", 0, FALSE)

\* _async_schedule_poll
async_schedule_poll(self) ==
    IF Truthy(self.data)
    THEN Outcome([self EXCEPT !.last_update_success = TRUE], "", 1, FALSE)
    ELSE Outcome([self EXCEPT !.last_update_success = FALSE], "", 0, FALSE)

\* _update_coordinator_address, after the address was set: an exception
\* raised by the parsing is caught
Connected(moved, parsed) ==
    IF Raised(parsed)
    THEN Outcome(moved, parsed.exc, 0, FALSE)
    ELSE Outcome([moved EXCEPT !.data = Val(parsed), !.last_update_success = TRUE],
                 "", 1, FALSE)

Moved(moved, service_info, t) ==
    IF service_info = NoneVal
    THEN Outcome(moved, "", 0, FALSE)
    ELSE Connected(moved, parse_advertisement_data(moved.entry, service_info[1], t))

\* _update_coordinator_address
update_coordinator_address(self, new_address, hist, t) ==
    Moved([self EXCEPT !.address = new_address],
          async_last_service_info(hist, new_address), t)

\* _discover_and_update_address, for the device found: the config entry is
\* updated, then the coordinator
Resolve(self, device_address, hist, t) ==
    update_coordinator_address(
        [self EXCEPT !.entry.data = DictUpdate(@, [address |-> device_address])],
        device_address, hist, t)

\* discovery that settles on the last qualifying device of the scan
LastQualifying(self, qualifying, hist, t) ==
    IF qualifying = {}
    THEN Outcome(self, "", 0, FALSE)
    ELSE Resolve(self,
                 StrUpper(hist[CHOOSE j \in qualifying : \A k \in qualifying : k <= j].address),
                 hist, t)

FirstQualifying(self, qualifying, hist, t) ==
    IF qualifying = {}
    THEN Outcome(self, "", 0, FALSE)
    ELSE Resolve(self, StrUpper(hist[Min(qualifying)].address), hist, t)

\* discovery that takes the first device of the scan, qualifying or not
discover_any_device(self, hist, t) ==
    FirstQualifying(self, DOMAIN hist, hist, t)

\* _discover_and_update_address: the first qualifying device in scan order
discover_and_update_address(self, hist, t) ==
    FirstQualifying(self, {j \in DOMAIN hist : is_wepower_device(hist[j])}, hist, t)

\* async_init that marks the device unavailable when no advertisement is found
async_init_unavailable(self, hist, t) ==
    IF StartsWith(self.address, DiscoveryPrefix)
    THEN discover_and_update_address(self, hist, t)
    ELSE IF async_last_service_info(hist, self.address) = NoneVal
         THEN Outcome([self EXCEPT !.last_update_success = FALSE],
                      "ConfigEntryNotReady", 0, FALSE)
         ELSE Outcome(self, "", 0, TRUE)

\* async_init that runs discovery whatever the address is
async_init_rediscover(self, hist, t) == discover_and_update_address(self, hist, t)

\* async_init
async_init(self, hist, t) ==
    IF StartsWith(self.address, DiscoveryPrefix)
    THEN discover_and_update_address(self, hist, t)
    ELSE IF async_last_service_info(hist, self.address) = NoneVal
         THEN Outcome(self, "ConfigEntryNotReady", 0, FALSE)
         ELSE Outcome(self, "", 0, TRUE)

\* a shutdown that clears the flag and keeps the record
async_shutdown_keeping_record(self) ==
    Outcome([self EXCEPT !.last_update_success = FALSE], "", 0, FALSE)

\* async_shutdown
async_shutdown(self) ==
    Outcome([self EXCEPT !.data = EmptyDict, !.last_update_success = FALSE],
            "", 0, FALSE)

-----------------------------------------------------------------------------
(* device_management.py: the device manager.  A device record is a Python *)
(* dict, an object that several holders can refer to: heap is the         *)
(* sequence of the objects created so far and a reference is an index     *)
(* into it.  devices keeps the insertion order of the Python dict. tasks  *)
(* are the coroutines handed to hass.async_create_task, run in the order  *)
(* they were created; sent are the calls of async_dispatcher_send, each   *)
(* with the object passed and what it held at that moment; called are the *)
(* calls of subscriber callbacks; unsubscribes counts, for each key and   *)
(* callback, the unsubscribe functions handed out and not yet called.     *)

SIGNAL_DEVICE_UPDATED == "wepower_iot_device_updated"

SIGNAL_DEVICE_ADDED == "wepower_iot_device_added"

\* dict.get(k, default)
DictGet(d, k, default) == IF k \in DOMAIN d THEN d[k] ELSE default

\* __init__
NewManager ==
    [devices           |-> << >>,
     heap              |-> << >>,
     _subscribers      |-> EmptyDict,
     _created_entities |-> {},
     tasks             |-> << >>,
     sent              |-> << >>,
     called            |-> << >>,
     unsubscribes      |-> EmptyDict,
     dongles           |-> << >>,
     fired             |-> << >>,
     stopped           |-> FALSE,
     op                |-> [op |-> "new", id |-> "", exc |-> ""]]

\* self.devices[device_id] = the object at ref
Stored(devices, device_id, ref) ==
    IF \E j \in DOMAIN devices : devices[j].id = device_id
    THEN [j \in DOMAIN devices |->
             IF devices[j].id = device_id THEN [id |-> device_id, ref |-> ref]
             ELSE devices[j]]
    ELSE Append(devices, [id |-> device_id, ref |-> ref])

\* add_device: a new dict is stored and its announcement is scheduled; a
\* device_data without device_id raises KeyError, which is caught
add_device(m, device_data, t) ==
    IF "device_id" \notin DOMAIN device_data
    THEN m
    ELSE [m EXCEPT
            !.heap = Append(@, [device_id        |-> device_data.device_id,
                                name             |-> DictGet(device_data, "name",
                                                             device_data.device_id),
                                status           |-> DictGet(device_data, "status",
                                                             "disconnected"),
                                last_seen        |-> IsoFormat(t),
                                created_manually |-> TRUE,
                                properties       |-> EmptyDict]),
            !.devices = Stored(@, device_data.device_id, Len(m.heap) + 1),
            !.tasks = Append(@, [coro |-> "_async_notify_device_added",
                                 ref  |-> Len(m.heap) + 1])]

test_devices ==
    << [device_id |-> "test_ble_leak_sensor", name |-> "Test BLE Leak Sensor",
        status |-> "connected"],
       [device_id |-> "test_zigbee_light_switch", name |-> "Test Zigbee Light Switch",
        status |-> "connected"],
       [device_id |-> "test_ble_temperature", name |-> "Test BLE Temperature Sensor",
        status |-> "connected"] >>

\* _add_test_devices: each test device is added, then marked as created
RECURSIVE add_test_devices(_, _, _)
add_test_devices(m, ds, t) ==
    IF ds = << >> THEN m
    ELSE add_test_devices([add_device(m, Head(ds), t) EXCEPT
                              !._created_entities = @ \cup {Head(ds).device_id}],
                          Tail(ds), t)

\* _handle_device_message: the decoded message itself becomes the stored
\* record, its missing fields filled in; a message without device_id is
\* dropped
handle_device_message(m, msg, t) ==
    IF "device_id" \notin DOMAIN msg
    THEN m
    ELSE [m EXCEPT
            !.heap = Append(@, DictUpdate([name       |-> msg.device_id,
                                           last_seen  |-> IsoFormat(t),
                                           properties |-> EmptyDict], msg)),
            !.devices = Stored(@, msg.device_id, Len(m.heap) + 1),
            !.tasks = Append(@, [coro |-> "_async_notify_device_update",
                                 ref  |-> Len(m.heap) + 1])]

\* _handle_dongle_message: a new dict is stored under "<device_type>_<port>"
\* and a callback is handed to the event loop; the callback holds the
\* dongle's identity, not the dict
handle_dongle_message(m, msg) ==
    [m EXCEPT
       !.heap = Append(@, [port         |-> DictGet(msg, "port", "unknown"),
                           device_type  |-> DictGet(msg, "device_type", "unknown"),
                           status       |-> DictGet(msg, "status", "unknown"),
                           device_count |-> DictGet(msg, "device_count", 0),
                           timestamp    |-> IF "timestamp" \in DOMAIN msg
                                            THEN Some(msg.timestamp) ELSE NoneVal]),
       !.dongles = Stored(@, <<DictGet(msg, "device_type", "unknown"), "_",
                               DictGet(msg, "port", "unknown")>>, Len(m.heap) + 1),
       !.tasks = Append(@, [coro |-> "call_soon_threadsafe", ref |-> 0,
                            dongle_id |-> <<DictGet(msg, "device_type", "unknown"), "_",
                                            DictGet(msg, "port", "unknown")>>])]

\* the callback of _handle_dongle_message runs: self.dongles[dongle_id] is
\* read now and the notification of that dict is made a task
dongle_callback(m, dongle_id) ==
    [m EXCEPT !.tasks = Append(@, [coro |-> "_async_notify_dongle_update",
                                   ref  |-> m.dongles[CHOOSE j \in DOMAIN m.dongles :
                                                m.dongles[j].id = dongle_id].ref])]

\* async_dispatcher_send(hass, signal, the object at ref)
Sent(m, signal, ref) ==
    [m EXCEPT !.sent = Append(@, [signal |-> signal, ref |-> ref, seen |-> m.heap[ref]])]

\* _async_notify_device_added
async_notify_device_added(m, ref) == Sent(m, SIGNAL_DEVICE_ADDED, ref)

\* _async_notify_device_update
async_notify_device_update(m, ref) ==
    IF m.heap[ref].device_id \notin m._created_entities
    THEN Sent([Sent(m, SIGNAL_DEVICE_UPDATED, ref) EXCEPT
                  !._created_entities = @ \cup {m.heap[ref].device_id}],
              SIGNAL_DEVICE_ADDED, ref)
    ELSE Sent(m, SIGNAL_DEVICE_UPDATED, ref)

\* _async_notify_dongle_update
async_notify_dongle_update(m, ref) == Sent(m, SIGNAL_DEVICE_UPDATED, ref)

\* what the event loop runs for an entry of its queue
Ran(m, task) ==
    CASE task.coro = "_async_notify_device_added"  -> async_notify_device_added(m, task.ref)
      [] task.coro = "_async_notify_device_update" -> async_notify_device_update(m, task.ref)
      [] task.coro = "_async_notify_dongle_update" -> async_notify_dongle_update(m, task.ref)
      [] task.coro = "call_soon_threadsafe"        -> dongle_callback(m, task.dongle_id)

\* the positions in devices of the records whose status is "connected"
ConnectedDevices(m) ==
    {j \in DOMAIN m.devices : m.heap[m.devices[j].ref].status = "connected"}

\* _update_device_statuses, where random.random() < 0.1 came out true for
\* the devices at the positions in offline: their dicts are written to and
\* an update is scheduled for each, in the order of the devices
update_device_statuses(m, offline, t) ==
    [m EXCEPT
       !.heap = [r \in DOMAIN m.heap |->
                    IF \E j \in offline : m.devices[j].ref = r
                    THEN [m.heap[r] EXCEPT !.status = "offline", !.last_seen = IsoFormat(t)]
                    ELSE m.heap[r]],
       !.tasks = @ \o [k \in 1..Cardinality(offline) |->
                         [coro |-> "_async_notify_device_update",
                          ref  |-> m.devices[CHOOSE j \in offline :
                                       Cardinality({i \in offline : i <= j}) = k].ref]]]

\* a remove_device service that also forgets the identity in the dedup set
remove_device_forgetting(m, device_id) ==
    IF \E j \in DOMAIN m.devices : m.devices[j].id = device_id
    THEN [m EXCEPT !.devices = SelectSeq(@, LAMBDA d : d.id # device_id),
                   !._created_entities = @ \ {device_id},
                   !.fired = Append(@, [event_type |-> "wepower_iot_device_removed",
                                        device_id  |-> device_id])]
    ELSE m

\* the remove_device service: the entry is deleted from devices and the
\* removal is fired on the bus; an unknown device_id does nothing
remove_device(m, device_id) ==
    IF \E j \in DOMAIN m.devices : m.devices[j].id = device_id
    THEN [m EXCEPT !.devices = SelectSeq(@, LAMBDA d : d.id # device_id),
                   !.fired = Append(@, [event_type |-> "wepower_iot_device_removed",
                                        device_id  |-> device_id])]
    ELSE m

\* stop(): its body is pass.  stopped records that it has returned
stop(m) == [m EXCEPT !.stopped = TRUE]

\* subscribe_to_device_updates(device_id, callback), and
\* subscribe_to_updates(callback) with the key "general": the callback is
\* appended and an unsubscribe function for it is returned
subscribe(m, key, callback) ==
    [m EXCEPT !._subscribers = DictUpdate(@, key :> Append(DictGet(@, key, << >>), callback)),
              !.unsubscribes = DictUpdate(@, <<key, callback>> :>
                                             (DictGet(@, <<key, callback>>, 0) + 1))]

\* list.remove(x): the first occurrence is taken out
ListRemove(l, x) ==
    SubSeq(l, 1, Min({i \in DOMAIN l : l[i] = x}) - 1)
    \o SubSeq(l, Min({i \in DOMAIN l : l[i] = x}) + 1, Len(l))

\* an unsubscribe function that drops every registration of the callback
unsubscribe_all(m, key, callback) ==
    IF \E i \in DOMAIN m._subscribers[key] : m._subscribers[key][i] = callback
    THEN Return([m EXCEPT !._subscribers[key] = SelectSeq(@, LAMBDA c : c # callback)])
    ELSE Raise("ValueError")

\* the unsubscribe function returned for (key, callback): list.remove
\* raises ValueError when the list does not hold the callback
unsubscribe(m, key, callback) ==
    IF \E i \in DOMAIN m._subscribers[key] : m._subscribers[key][i] = callback
    THEN Return([m EXCEPT !._subscribers[key] = ListRemove(@, callback)])
    ELSE Raise("ValueError")

-----------------------------------------------------------------------------
(* ble_binary_sensor.py: the binary sensor entity of a config entry.  It   *)
(* is a listener of the coordinator: async_update_listeners calls its      *)
(* _handle_coordinator_update.  _attr_is_on is None until a value is set.  *)

\* no entity
NoSensor == [address |-> << >>, _attr_is_on |-> NoneVal,
             _attr_available |-> FALSE, _device_type |-> "none"]

\* __init__: the address is the one in the config data
NewBinarySensor(e) ==
    [address |-> e.data[CONF_ADDRESS], _attr_is_on |-> NoneVal,
     _attr_available |-> FALSE, _device_type |-> "unknown"]

\* _get_professional_device_id: int(last_6, 16) of the last six characters
\* of the address without its colons raises ValueError when there is none
\* or one of them is no hexadecimal digit
ProfessionalIdRaises(addr) ==
    \/ SelectSeq(addr, LAMBDA c : c # ":") = << >>
    \/ \E i \in DOMAIN addr :
          /\ addr[i] # ":"
          /\ Cardinality({j \in (i+1)..Len(addr) : addr[j] # ":"}) < 6
          /\ ~IsHexChar(addr[i])

\* _set_sensor_properties: the types with "switch" and none of the words
\* tested before it in their name return before the identifier is built
SetSensorPropertiesRaises(s, device_type) ==
    /\ device_type \notin {"on_off_switch", "light_switch", "toggle_switch"}
    /\ ProfessionalIdRaises(s.address)

\* _extract_binary_sensor_value: the first of the keys the record holds,
\* False when it holds none
Extracted(sensor_data) ==
    IF "leak_detected" \in DOMAIN sensor_data THEN Some(sensor_data["leak_detected"])
    ELSE IF "vibration_detected" \in DOMAIN sensor_data THEN Some(sensor_data["vibration_detected"])
    ELSE IF "door_open" \in DOMAIN sensor_data THEN Some(sensor_data["door_open"])
    ELSE IF "switch_on" \in DOMAIN sensor_data THEN Some(sensor_data["switch_on"])
    ELSE IF "sensor_event" \in DOMAIN sensor_data THEN Some(sensor_data["sensor_event"] > 0)
    ELSE Some(FALSE)

\* _update_from_coordinator; an exception of _set_sensor_properties ends it
\* after the device type was assigned
update_from_coordinator(s, d) ==
    IF ~Truthy(d)
    THEN [s EXCEPT !._attr_available = FALSE]
    ELSE IF SetSensorPropertiesRaises(s, DictGet(d, "device_type", "unknown"))
    THEN [s EXCEPT !._device_type = DictGet(d, "device_type", "unknown")]
    ELSE [s EXCEPT !._device_type = DictGet(d, "device_type", "unknown"),
                   !._attr_is_on = Extracted(DictGet(d, "sensor_data", EmptyDict)),
                   !._attr_available = TRUE]

\* _handle_coordinator_update: the exception is caught and logged
handle_coordinator_update(s, d) == update_from_coordinator(s, d)

\* async_update_listeners, as many times as the operation called it
Listening(s, out) ==
    IF out.notified > 0 THEN handle_coordinator_update(s, out.self.data) ELSE s

-----------------------------------------------------------------------------
(* The inputs *)

MaxTime == 135

TimeStep == 45

MaxDiscovered == 2

MacA == <<"A", "A", ":", "B", "B", ":", "C", "C", ":", "D", "D", ":", "E", "E", ":", "0", "1">>

MacALower == <<"a", "a", ":", "b", "b", ":", "c", "c", ":", "d", "d", ":", "e", "e", ":", "0", "1">>

MacB == <<"A", "A", ":", "B", "B", ":", "C", "C", ":", "D", "D", ":", "E", "E", ":", "0", "2">>

MacC == <<"A", "A", ":", "B", "B", ":", "C", "C", ":", "D", "D", ":", "E", "E", ":", "0", "3">>

\* cleartext block: source id, network id, firmware version, sensor type
\* bytes, 8-byte payload
Block(type_lo, type_hi, payload) == <<17, 34, 51, 68, 85, 1, type_lo, type_hi>> \o payload

\* the 18-byte outer frame: flag byte, 16 payload bytes, CRC8 over the two
Frame18(flags_byte, block) ==
    <<flags_byte>> \o block \o <<calculate_crc8(<<flags_byte>> \o block)>>

\* plaintext flag set (bit 0), payload length 4 in the high nibble
PlainFlags == 4 * 16 + 1

LeakFrame == Frame18(PlainFlags, Block(4, 0, <<1, 0, 0, 1, 0, 0, 0, 0>>))

ShortFrame == SubSeq(LeakFrame, 1, 10)

LongFrame == LeakFrame \o <<0, 0>>

KeyHex == HexUpper(<<0, 1, 2, 3, 4, 5, 6, 7, 8, 9, 10, 11, 12, 13, 14, 15>>)

ServiceInfos ==
    << [address |-> MacA, name |-> << >>, rssi |-> -60,
        manufacturer_data |-> (BLE_COMPANY_ID :> LeakFrame)],
       [address |-> MacA, name |-> << >>, rssi |-> -75,
        manufacturer_data |-> (BLE_COMPANY_ID :> ShortFrame)],
       [address |-> MacB, name |-> <<"w", "p", "-", "2">>, rssi |-> -80,
        manufacturer_data |-> (76 :> <<2, 21>>)],
       [address |-> MacC, name |-> <<"T", "a", "g">>, rssi |-> -50,
        manufacturer_data |-> (BLE_COMPANY_ID :> LongFrame)],
       [address |-> <<"h", "c", "i", "0">>, name |-> << >>, rssi |-> -90,
        manufacturer_data |-> EmptyDict] >>

Entries ==
    { [entry_id |-> <<"e", "1">>, data |-> [decryption_key |-> KeyHex]],
      [entry_id |-> <<"e", "1">>,
       data |-> [address |-> PlaceholderAddress, decryption_key |-> KeyHex]],
      [entry_id |-> <<"e", "1">>,
       data |-> [address |-> MacALower, decryption_key |-> KeyHex]],
      [entry_id |-> <<"e", "1">>, data |-> [address |-> MacC]],
      [entry_id |-> <<"e", "1">>, data |-> [address |-> << >>]] }

\* the devices the scanner may have recorded
Scannable == {1, 3, 4}

SameAddress(i, j) == ServiceInfos[i].address = ServiceInfos[j].address

\* the scanner's service infos, in the order their addresses were first seen
Discovered == [j \in DOMAIN history |-> ServiceInfos[history[j]]]

\* timers that can still fire before the clock's bound
Pending(dues) == {d \in dues : d <= MaxTime}

Self == [address |-> address, data |-> data,
         last_update_success |-> last_update_success, entry |-> entry]

NoParserInput == [kind |-> "none"]

NoParserOutput == [fn |-> "none"]

-----------------------------------------------------------------------------
(* The coordinator as a state machine *)

\* whether async_shutdown has run with no advertisement and no async_init
\* handled since: kept by a check and by the environment
ShutDownAfter(op, down) ==
    IF op = "shutdown" THEN TRUE
    ELSE IF op = "poll" THEN down
    ELSE FALSE

Apply(op, si, out) ==
    /\ address' = out.self.address
    /\ data' = out.self.data
    /\ last_update_success' = out.self.last_update_success
    /\ entry' = out.self.entry
    /\ lastOp' = [op |-> op, si |-> si, exc |-> out.exc, notified |-> out.notified,
                  down |-> ShutDownAfter(op, lastOp.down)]

Construct(e) ==
    LET c == NewCoordinator(e)
    IN /\ address = c.address
       /\ data = c.data
       /\ last_update_success = c.last_update_success
       /\ entry = c.entry

Init ==
    /\ \E e \in Entries : Construct(e)
    /\ now = 0
    /\ pollDue = {}
    /\ history = << >>
    /\ lastOp = [op |-> "new", si |-> 0, exc |-> "", notified |-> 0, down |-> FALSE]
    /\ pin = NoParserInput
    /\ pout = NoParserOutput
    /\ manager = NewManager
    /\ coordinators = << >>
    /\ sensor = NoSensor

\* the scanner delivers an advertisement to the coordinator's callback
HandleBluetoothEvent(i) ==
    /\ \E out \in {async_handle_bluetooth_event(Self, ServiceInfos[i], now)} :
          Apply("adv", i, out)
    /\ UNCHANGED <<now, pollDue, history, pin, pout, manager, coordinators, sensor>>

\* a registered timer fires
SchedulePoll(due) ==
    /\ due \in pollDue
    /\ due <= now
    /\ \E out \in {async_schedule_poll(Self)} : Apply("poll", 0, out)
    /\ pollDue' = Pending((pollDue \ {due}) \cup {due + FALLBACK_POLL_INTERVAL})
    /\ UNCHANGED <<now, history, pin, pout, manager, coordinators, sensor>>

AsyncInit ==
    \E out \in {async_init(Self, Discovered, now)} :
       /\ Apply("async_init", 0, out)
       /\ pollDue' = IF out.registered
                     THEN Pending(pollDue \cup {now + FALLBACK_POLL_INTERVAL})
                     ELSE pollDue
       /\ UNCHANGED <<now, history, pin, pout, manager, coordinators, sensor>>

AsyncShutdown ==
    /\ \E out \in {async_shutdown(Self)} : Apply("shutdown", 0, out)
    /\ UNCHANGED <<now, pollDue, history, pin, pout, manager, coordinators, sensor>>

\* the scanner records an advertisement: one entry per address, in the
\* order the addresses were first seen
ScannerObserves(i) ==
    /\ IF \E j \in DOMAIN history : SameAddress(history[j], i)
       THEN history' = [j \in DOMAIN history |->
                           IF SameAddress(history[j], i) THEN i ELSE history[j]]
       ELSE /\ Len(history) < MaxDiscovered
            /\ history' = Append(history, i)
    /\ lastOp' = [op |-> "env", si |-> 0, exc |-> "", notified |-> 0,
                  down |-> lastOp.down]
    /\ UNCHANGED <<address, data, last_update_success, entry, now, pollDue, pin, pout, manager, coordinators, sensor>>

\* time passes; a timer that is due fires before time passes again
Tick ==
    /\ now + TimeStep <= MaxTime
    /\ \A due \in pollDue : now < due
    /\ now' = now + TimeStep
    /\ lastOp' = [op |-> "env", si |-> 0, exc |-> "", notified |-> 0,
                  down |-> lastOp.down]
    /\ UNCHANGED <<address, data, last_update_success, entry, pollDue, history, pin, pout, manager, coordinators, sensor>>

Next ==
    \/ AsyncShutdown
    \/ \E i \in DOMAIN ServiceInfos : HandleBluetoothEvent(i)
    \/ \E due \in pollDue : SchedulePoll(due)
    \/ AsyncInit
    \/ \E i \in Scannable : ScannerObserves(i)
    \/ Tick

Spec == Init /\ [][Next]_vars

-----------------------------------------------------------------------------
(* The decode pipeline on its own: one input is drawn, one function of     *)
(* packet_parser.py or the coordinator's frame parser is applied to it.    *)

MaxCounterByte == 5

MaxEvent == 2

\* sensor type bytes at offsets 6 and 7 of the cleartext
TypeBytePairs == {<<0, 0>>, <<4, 0>>, <<0, 4>>, <<4, 4>>, <<99, 0>>, <<0, 99>>}

\* flag bytes: plaintext (bit 0 set) with and without the other fields,
\* and encrypted
FlagBytes == {1, 64, 65}

Payloads ==
    {<<p0, p1, p2, p3, 0, 0, 0, 0>> :
        p0 \in 0..MaxCounterByte, p1 \in {0, 1, 255}, p2 \in {0, 255}, p3 \in 0..MaxEvent}

ParserInputs ==
    {[flags_byte |-> f, block |-> Block(ty[1], ty[2], p)] :
        f \in FlagBytes, ty \in TypeBytePairs, p \in Payloads}

\* config entries: a valid key, no key, a key of four bytes, a key that is
\* not hex
ParserEntries ==
    { [entry_id |-> <<"e", "1">>, data |-> [decryption_key |-> KeyHex]],
      [entry_id |-> <<"e", "1">>, data |-> [address |-> MacC]],
      [entry_id |-> <<"e", "1">>, data |-> [decryption_key |-> HexUpper(<<0, 1, 2, 3>>)]],
      [entry_id |-> <<"e", "1">>, data |-> [decryption_key |-> <<"k", "e", "y", "!">>]] }

\* the manufacturer data built around the drawn flag byte and block
FrameKinds == {"outer18", "badcrc18", "inner16", "short10", "long20"}

FrameOf(kind, in) ==
    CASE kind = "outer18"  -> Frame18(in.flags_byte, in.block)
      [] kind = "badcrc18" ->
            <<in.flags_byte>> \o in.block
            \o <<(calculate_crc8(<<in.flags_byte>> \o in.block) + 1) % 256>>
      [] kind = "inner16"  -> in.block
      [] kind = "short10"  -> SubSeq(in.block, 1, 10)
      [] kind = "long20"   -> Frame18(in.flags_byte, in.block) \o <<0, 0>>

\* a packet whose flags the caller has set from the flag byte
PacketWithFlags(in) ==
    [Val(WePowerPacket(in.block)) EXCEPT
        !.flags = Some(WePowerPacketFlags(in.flags_byte))]

Decrypted(e, in) == decrypt_payload(PacketWithFlags(in), EntryDecryptionKey(e))

\* an advertisement that carries the frame under the company identifier
AdvertisementWith(frame) ==
    [address |-> MacA, name |-> << >>, rssi |-> -60,
     manufacturer_data |-> (22352 :> frame)]

ParserInit ==
    /\ \E e \in ParserEntries : Construct(e)
    /\ now = 0
    /\ pollDue = {}
    /\ history = << >>
    /\ lastOp = [op |-> "new", si |-> 0, exc |-> "", notified |-> 0, down |-> FALSE]
    /\ pin \in ParserInputs
    /\ pout = NoParserOutput
    /\ manager = NewManager
    /\ coordinators = << >>
    /\ sensor = NoSensor

Applied(fn, arg, result) ==
    /\ pout.fn = "none"
    /\ pout' = [fn |-> fn, arg |-> arg, result |-> result]
    /\ UNCHANGED <<address, data, last_update_success, entry,
                   now, pollDue, history, lastOp, pin,
                   manager, coordinators, sensor>>

ApplyDecryptPayload ==
    Applied("decrypt_payload", pin.block, Decrypted(entry, pin))

ApplyParseSensorData ==
    /\ Decrypted(entry, pin) # NoneVal
    /\ Applied("parse_sensor_data", pin.block, parse_sensor_data(Decrypted(entry, pin)[1]))

ApplyParseWepowerPacket(kind) ==
    \E call \in {ParseCall(WePowerPacket(FrameOf(kind, pin)), EntryDecryptionKey(entry))} :
       /\ pout.fn = "none"
       /\ pout' = [fn |-> "parse_wepower_packet", arg |-> FrameOf(kind, pin),
                   result |-> IF Raised(call) THEN NoneVal ELSE Val(call),
                   exc |-> call.exc]
       /\ UNCHANGED <<address, data, last_update_success, entry,
                      now, pollDue, history, lastOp, pin,
                   manager, coordinators, sensor>>

ApplyParseManufacturerData(kind) ==
    Applied("parse_wepower_manufacturer_data", FrameOf(kind, pin),
            parse_wepower_manufacturer_data(entry, FrameOf(kind, pin)))

\* validate_crc on the packet of the frame's 16 payload bytes, its flags and
\* crc fields filled from the frame's first and last byte
ApplyValidateCrc(kind) ==
    /\ kind \in {"outer18", "badcrc18"}
    /\ Applied("validate_crc", FrameOf(kind, pin),
               validate_crc([PacketWithFlags(pin) EXCEPT
                                !.crc = Some(FrameOf(kind, pin)[18])]))

\* the coordinator's callback on an advertisement that carries the frame
ApplyHandleBluetoothEvent(kind) ==
    /\ pout.fn = "none"
    /\ \E out \in {async_handle_bluetooth_event(
                        Self, AdvertisementWith(FrameOf(kind, pin)), now)} :
          /\ Apply("adv", 0, out)
          /\ pout' = [fn |-> "async_handle_bluetooth_event",
                      arg |-> FrameOf(kind, pin), result |-> out.exc]
    /\ UNCHANGED <<now, pollDue, history, pin, manager, coordinators, sensor>>

\* _calculate_crc8 on the flag byte followed by the 16 payload bytes
ApplyCalculateCrc8 ==
    Applied("_calculate_crc8", <<pin.flags_byte>> \o pin.block,
            calculate_crc8(<<pin.flags_byte>> \o pin.block))

ParserNext ==
    \/ ApplyDecryptPayload
    \/ ApplyCalculateCrc8
    \/ \E kind \in FrameKinds : ApplyHandleBluetoothEvent(kind)
    \/ \E kind \in FrameKinds : ApplyValidateCrc(kind)
    \/ ApplyParseSensorData
    \/ \E kind \in FrameKinds : ApplyParseWepowerPacket(kind)
    \/ \E kind \in FrameKinds : ApplyParseManufacturerData(kind)

ParserSpec == ParserInit /\ [][ParserNext]_vars

-----------------------------------------------------------------------------
(* The device manager as a state machine.  Under ManagerSpec it has been    *)
(* started: devices are added by the add_device service and by device      *)
(* messages, the scheduled notifications run and the discovery loop        *)
(* updates the statuses.  Under SubscriberSpec entities subscribe to it    *)
(* and unsubscribe, and one device message arrives.                        *)

MaxObjects == 4

MaxRegistrations == 3

DeviceIds == {"test_ble_leak_sensor", "sensor-1"}

\* the data of an add_device service call
DeviceData ==
    {[device_id |-> d, status |-> "connected"] : d \in DeviceIds}
    \cup {[device_id |-> d] : d \in DeviceIds}
    \cup {[status |-> "connected"]}

\* the decoded payload of a device message
Messages ==
    {[device_id |-> d, status |-> st] : d \in DeviceIds, st \in {"connected", "offline"}}
    \cup {[status |-> "connected"]}

Callbacks == {"_handle_device_update", "_handle_update"}

SubscriberKeys == {"sensor-1", "general"}

\* the callbacks registered in all lists together
Registrations(m) ==
    Cardinality({<<k, i>> \in (DOMAIN m._subscribers) \X (1..MaxRegistrations) :
                    i <= Len(m._subscribers[k])})

Did(m, op, id, exc) == manager' = [m EXCEPT !.op = [op |-> op, id |-> id, exc |-> exc]]

ManagerIdle == UNCHANGED <<address, data, last_update_success, entry,
                           now, pollDue, history, lastOp, pin, pout, coordinators, sensor>>

\* the manager as the integration's setup leaves it: constructed and
\* started
ManagerInit ==
    /\ \E e \in Entries : e.data = [address |-> MacC] /\ Construct(e)
    /\ now = 0
    /\ pollDue = {}
    /\ history = << >>
    /\ lastOp = [op |-> "new", si |-> 0, exc |-> "", notified |-> 0, down |-> FALSE]
    /\ pin = NoParserInput
    /\ pout = NoParserOutput
    /\ manager = [add_test_devices(NewManager, test_devices, 0) EXCEPT
                     !.op = [op |-> "start", id |-> "", exc |-> ""]]
    /\ coordinators = << >>
    /\ sensor = NoSensor

\* the add_device service
AddDevice(device_data) ==
    /\ Len(manager.heap) < MaxObjects
    /\ Did(add_device(manager, device_data, now), "add_device",
           DictGet(device_data, "device_id", ""),
           IF "device_id" \in DOMAIN device_data THEN "" ELSE "KeyError")
    /\ ManagerIdle

\* a message arrives on wepower_iot/device/+/+
DeviceMessage(msg) ==
    /\ Len(manager.heap) < MaxObjects
    /\ Did(handle_device_message(manager, msg, now), "_handle_device_message",
           DictGet(msg, "device_id", ""), "")
    /\ ManagerIdle

\* the event loop runs the task created first
RunTask ==
    /\ manager.tasks # << >>
    /\ \E m \in {[manager EXCEPT !.tasks = Tail(@)]}, task \in {Head(manager.tasks)} :
          Did(Ran(m, task), task.coro,
              IF task.ref = 0 THEN ""
              ELSE DictGet(manager.heap[task.ref], "device_id", ""), "")
    /\ ManagerIdle

\* one round of _device_discovery_loop in which at least one device is
\* taken offline
UpdateDeviceStatuses(offline) ==
    /\ offline # {}
    /\ Did(update_device_statuses(manager, offline, now), "_update_device_statuses", "", "")
    /\ ManagerIdle

\* an entity subscribes when it is added to the host
Subscribe(key, callback) ==
    /\ Registrations(manager) < MaxRegistrations
    /\ manager' = [subscribe(manager, key, callback) EXCEPT
                      !.op = [op |-> "subscribe", id |-> key, exc |-> "",
                              callback |-> callback]]
    /\ ManagerIdle

\* an unsubscribe function handed out earlier is called: the entity gave
\* it to async_on_remove, which calls it once when the entity is removed
Unsubscribe(key, callback) ==
    /\ DictGet(manager.unsubscribes, <<key, callback>>, 0) > 0
    /\ \E r \in {unsubscribe(manager, key, callback)} :
          manager' = [(IF Raised(r) THEN manager ELSE Val(r)) EXCEPT
                         !.unsubscribes[<<key, callback>>] = @ - 1,
                         !.op = [op |-> "unsubscribe", id |-> key, exc |-> r.exc,
                                 callback |-> callback]]
    /\ ManagerIdle

ManagerNext ==
    \/ \E device_data \in DeviceData : AddDevice(device_data)
    \/ \E msg \in Messages : DeviceMessage(msg)
    \/ RunTask
    \/ \E offline \in SUBSET ConnectedDevices(manager) : UpdateDeviceStatuses(offline)

ManagerSpec == ManagerInit /\ [][ManagerNext]_vars

\* the remove_device service
RemoveDevice(device_id) ==
    /\ Did(remove_device(manager, device_id), "remove_device", device_id, "")
    /\ ManagerIdle

\* async_unload_entry awaits stop(), once
Stop ==
    /\ ~manager.stopped
    /\ Did(stop(manager), "stop", "", "")
    /\ ManagerIdle

\* the started manager with devices added, announced, removed and announced
\* again, until it is stopped and after
LifecycleNext ==
    \/ \E device_data \in DeviceData : AddDevice(device_data)
    \/ \E msg \in Messages : DeviceMessage(msg)
    \/ \E device_id \in DeviceIds : RemoveDevice(device_id)
    \/ RunTask
    \/ Stop

LifecycleSpec == ManagerInit /\ [][LifecycleNext]_vars

\* the started manager and its discovery loop, until the manager is
\* stopped and after: start() created the loop's task and nothing cancels it
UnloadNext ==
    \/ \E offline \in SUBSET ConnectedDevices(manager) : UpdateDeviceStatuses(offline)
    \/ RunTask
    \/ Stop

UnloadSpec == ManagerInit /\ [][UnloadNext]_vars

\* the unsubscribe function that was called last is called once more
UnsubscribeAgain(key, callback) ==
    /\ manager.op.op \in {"unsubscribe", "unsubscribe again"}
    /\ manager.op.id = key
    /\ manager.op.callback = callback
    /\ \E r \in {unsubscribe(manager, key, callback)} :
          manager' = [(IF Raised(r) THEN manager ELSE Val(r)) EXCEPT
                         !.op = [op |-> "unsubscribe again", id |-> key, exc |-> r.exc,
                                 callback |-> callback]]
    /\ ManagerIdle

MaxDongleMessages == 2

\* the decoded payload of a dongle status message
DongleMessages ==
    {[port |-> p, device_type |-> "ble", status |-> st] :
        p \in {"/dev/ttyUSB0", "/dev/ttyUSB1"}, st \in {"connected", "disconnected"}}
    \cup {[status |-> "connected"]}

\* the dicts built from dongle messages
DongleRecords(m) == {r \in DOMAIN m.heap : "port" \in DOMAIN m.heap[r]}

\* the dicts that are device messages
DeviceMessageRecords(m) ==
    {r \in DOMAIN m.heap : "port" \notin DOMAIN m.heap[r]
                           /\ "created_manually" \notin DOMAIN m.heap[r]}

\* a message arrives on wepower_iot/dongle/+/+
DongleMessage(msg) ==
    /\ Cardinality(DongleRecords(manager)) < MaxDongleMessages
    /\ Did(handle_dongle_message(manager, msg), "_handle_dongle_message", "", "")
    /\ ManagerIdle

\* the started manager receiving dongle and device messages
DongleNext ==
    \/ \E msg \in DongleMessages : DongleMessage(msg)
    \/ \E msg \in Messages : DeviceMessage(msg)
    \/ RunTask

DongleSpec == ManagerInit /\ [][DongleNext]_vars

\* the manager constructed, no device known yet
SubscriberInit ==
    /\ \E e \in Entries : e.data = [address |-> MacC] /\ Construct(e)
    /\ now = 0
    /\ pollDue = {}
    /\ history = << >>
    /\ lastOp = [op |-> "new", si |-> 0, exc |-> "", notified |-> 0, down |-> FALSE]
    /\ pin = NoParserInput
    /\ pout = NoParserOutput
    /\ manager = NewManager
    /\ coordinators = << >>
    /\ sensor = NoSensor

SubscriberNext ==
    \/ \E key \in SubscriberKeys, callback \in Callbacks : Subscribe(key, callback)
    \/ \E key \in SubscriberKeys, callback \in Callbacks : Unsubscribe(key, callback)
    \/ \E msg \in Messages : manager.heap = << >> /\ DeviceMessage(msg)
    \/ RunTask

SubscriberSpec == SubscriberInit /\ [][SubscriberNext]_vars

\* entities subscribe; then unsubscribe functions are called, the one
\* called last possibly again
RepeatNext ==
    \/ \E key \in SubscriberKeys, callback \in Callbacks :
          manager.op.op \in {"new", "subscribe"} /\ Subscribe(key, callback)
    \/ \E key \in SubscriberKeys, callback \in Callbacks : Unsubscribe(key, callback)
    \/ \E key \in SubscriberKeys, callback \in Callbacks : UnsubscribeAgain(key, callback)

RepeatSpec == SubscriberInit /\ [][RepeatNext]_vars

-----------------------------------------------------------------------------
(* Two coordinators, one per config entry, in one host.  They share the    *)
(* scanner and the clock; each has its own attributes and its own timer.   *)
(* pollDue holds the coordinators whose recurring check is registered;     *)
(* the check may fire at any time after that.                              *)

\* the advertisements delivered: one handled, one of another device, one
\* whose parsing raises
PairInfos == {1, 4, 5}

\* the data of the two config entries: pending discovery, or configured
PairEntries ==
    {<<[entry_id |-> <<"e", "1">>, data |-> d1], [entry_id |-> <<"e", "2">>, data |-> d2]>> :
        d1 \in {[decryption_key |-> KeyHex], [address |-> MacALower]},
        d2 \in {[decryption_key |-> KeyHex], [address |-> MacC]}}

\* coordinators that keep last_update_success in one place for all of them
InstalledSharingFlag(pair, c, self) ==
    [k \in DOMAIN pair |->
        IF k = c THEN self
        ELSE [pair[k] EXCEPT !.last_update_success = self.last_update_success]]

\* the attributes an operation assigned, on the instance it ran on
Installed(pair, c, self) == [pair EXCEPT ![c] = self]

PairApply(c, op, si, out) ==
    /\ coordinators' = Installed(coordinators, c, out.self)
    /\ lastOp' = [op |-> op, si |-> si, exc |-> out.exc, notified |-> out.notified,
                  down |-> FALSE, c |-> c]

PairInit ==
    /\ \E e \in Entries : e.data = [address |-> MacC] /\ Construct(e)
    /\ now = 0
    /\ pollDue = {}
    /\ history = << >>
    /\ lastOp = [op |-> "new", si |-> 0, exc |-> "", notified |-> 0, down |-> FALSE]
    /\ pin = NoParserInput
    /\ pout = NoParserOutput
    /\ manager = NewManager
    /\ \E es \in PairEntries : coordinators = [c \in 1..2 |-> NewCoordinator(es[c])]
    /\ sensor = NoSensor

PairHandleBluetoothEvent(c, i) ==
    /\ \E out \in {async_handle_bluetooth_event(coordinators[c], ServiceInfos[i], now)} :
          PairApply(c, "adv", i, out)
    /\ UNCHANGED <<address, data, last_update_success, entry,
                   now, pollDue, history, pin, pout, manager, sensor>>

PairSchedulePoll(c) ==
    /\ c \in pollDue
    /\ \E out \in {async_schedule_poll(coordinators[c])} : PairApply(c, "poll", 0, out)
    /\ UNCHANGED <<address, data, last_update_success, entry,
                   now, pollDue, history, pin, pout, manager, sensor>>

PairAsyncInit(c) ==
    /\ \E out \in {async_init(coordinators[c], Discovered, now)} :
          /\ PairApply(c, "async_init", 0, out)
          /\ pollDue' = IF out.registered THEN pollDue \cup {c} ELSE pollDue
    /\ UNCHANGED <<address, data, last_update_success, entry,
                   now, history, pin, pout, manager, sensor>>

PairAsyncShutdown(c) ==
    /\ \E out \in {async_shutdown(coordinators[c])} : PairApply(c, "shutdown", 0, out)
    /\ UNCHANGED <<address, data, last_update_success, entry,
                   now, pollDue, history, pin, pout, manager, sensor>>

PairNext ==
    \/ \E c \in 1..2, i \in PairInfos : PairHandleBluetoothEvent(c, i)
    \/ \E c \in 1..2 : PairSchedulePoll(c)
    \/ \E c \in 1..2 : PairAsyncInit(c)
    \/ \E c \in 1..2 : PairAsyncShutdown(c)
    \/ \E i \in Scannable : ScannerObserves(i)

PairSpec == PairInit /\ [][PairNext]_vars

-----------------------------------------------------------------------------
(* The coordinator with the binary sensor entity of its config entry       *)
(* listening to it.                                                        *)

DryFrame == Frame18(PlainFlags, Block(4, 0, <<1, 0, 0, 0, 0, 0, 0, 0>>))

\* encrypt_status 0: the payload has to be decrypted
EncryptedFrame == Frame18(4 * 16, Block(4, 0, <<1, 0, 0, 1, 0, 0, 0, 0>>))

\* the advertisements the entity's coordinator is handed
SensorInfos ==
    << AdvertisementWith(LeakFrame),
       AdvertisementWith(DryFrame),
       AdvertisementWith(ShortFrame),
       ServiceInfos[3],
       AdvertisementWith(EncryptedFrame) >>

SensorApply(op, si, out) ==
    /\ Apply(op, si, out)
    /\ sensor' = Listening(sensor, out)

SensorInit ==
    /\ \E e \in {x \in Entries : CONF_ADDRESS \in DOMAIN x.data} :
          Construct(e) /\ sensor = NewBinarySensor(e)
    /\ now = 0
    /\ pollDue = {}
    /\ history = << >>
    /\ lastOp = [op |-> "new", si |-> 0, exc |-> "", notified |-> 0, down |-> FALSE]
    /\ pin = NoParserInput
    /\ pout = NoParserOutput
    /\ manager = NewManager
    /\ coordinators = << >>

SensorHandleBluetoothEvent(i) ==
    /\ \E out \in {async_handle_bluetooth_event(Self, SensorInfos[i], now)} :
          SensorApply("adv", i, out)
    /\ UNCHANGED <<now, pollDue, history, pin, pout, manager, coordinators>>

SensorSchedulePoll(due) ==
    /\ due \in pollDue
    /\ due <= now
    /\ \E out \in {async_schedule_poll(Self)} : SensorApply("poll", 0, out)
    /\ pollDue' = Pending((pollDue \ {due}) \cup {due + FALLBACK_POLL_INTERVAL})
    /\ UNCHANGED <<now, history, pin, pout, manager, coordinators>>

SensorAsyncInit ==
    \E out \in {async_init(Self, Discovered, now)} :
       /\ SensorApply("async_init", 0, out)
       /\ pollDue' = IF out.registered
                     THEN Pending(pollDue \cup {now + FALLBACK_POLL_INTERVAL})
                     ELSE pollDue
       /\ UNCHANGED <<now, history, pin, pout, manager, coordinators>>

SensorNext ==
    \/ \E i \in DOMAIN SensorInfos : SensorHandleBluetoothEvent(i)
    \/ \E due \in pollDue : SensorSchedulePoll(due)
    \/ SensorAsyncInit
    \/ \E i \in Scannable : ScannerObserves(i)
    \/ Tick

SensorSpec == SensorInit /\ [][SensorNext]_vars

-----------------------------------------------------------------------------
(* Claims about the decode pipeline, checked under ParserSpec *)

\* the cleartext the drawn input decrypts to under the entry's key
Cleartext == Val(DecryptedBytes(WePowerPacketFlags(pin.flags_byte), pin.block,
                                EntryDecryptionKey(entry)))

ValidKeyConfigured ==
    /\ EntryDecryptionKey(entry) # NoneVal
    /\ Len(EntryDecryptionKey(entry)[1]) = 16

\* C1: for every 18-byte frame (flag byte, 16 payload bytes, correct CRC8)
\* whose flag byte marks the payload as plaintext, with a valid 16-byte key
\* configured, _parse_wepower_manufacturer_data returns a non-empty result
\* whose sensor_data is decoded from frame bytes 1..16 and whose flags are
\* those of frame byte 0.
C1_PlainFrameDecoded ==
    ( /\ pout.fn = "parse_wepower_manufacturer_data"
      /\ pout.arg = Frame18(pin.flags_byte, pin.block)
      /\ WePowerPacketFlags(pin.flags_byte).encrypt_status = 1
      /\ ValidKeyConfigured )
    => /\ Truthy(pout.result)
       /\ "sensor_data" \in DOMAIN pout.result
       /\ pout.result.sensor_data = parse_sensor_data(Decrypted(entry, pin)[1])
       /\ pout.result.flags = pin.flags_byte

\* C2: for sensor type code 4 and every 8-byte payload p, parse_sensor_data
\* yields event_counter = p[0] + 256*p[1] + 65536*p[2], within 0..2^24-1,
\* sensor_event = p[3] and leak_detected exactly when p[3] = 1; the payload
\* 01 00 00 01 00 00 00 00 gives (1, 1, true), 05 00 00 00 00 00 00 00
\* gives (5, 0, false).
C2_LeakFields ==
    (pout.fn = "parse_sensor_data" /\ pout.result.sensor_type = 4)
    => /\ DOMAIN pout.result =
            {"sensor_type", "event_counter_lsb", "payload_length", "encrypt_status",
             "power_status", "event_counter", "sensor_event", "leak_detected"}
       /\ pout.result.event_counter =
            Cleartext[9] + 256 * Cleartext[10] + 65536 * Cleartext[11]
       /\ pout.result.event_counter \in 0..(2 ^ 24 - 1)
       /\ pout.result.sensor_event = Cleartext[12]
       /\ pout.result.leak_detected = (Cleartext[12] = 1)
       /\ (SubSeq(Cleartext, 9, 16) = <<1, 0, 0, 1, 0, 0, 0, 0>>
              => /\ pout.result.event_counter = 1
                 /\ pout.result.sensor_event = 1
                 /\ pout.result.leak_detected = TRUE)
       /\ (SubSeq(Cleartext, 9, 16) = <<5, 0, 0, 0, 0, 0, 0, 0>>
              => /\ pout.result.event_counter = 5
                 /\ pout.result.sensor_event = 0
                 /\ pout.result.leak_detected = FALSE)

\* a leak report whose counter spans more than one byte
C2_Witness ==
    /\ pout.fn = "parse_sensor_data"
    /\ pout.result.sensor_type = 4
    /\ SubSeq(Cleartext, 9, 12) = <<5, 1, 255, 1>>
    /\ pout.result.leak_detected

\* C3: the sensor type used for dispatch is the little-endian 16-bit value
\* of cleartext bytes 6..7: sensor_type = b6 + 256*b7, so bytes 04 00 are
\* dispatched as type 4 (Leak).
C3_LittleEndianSensorType ==
    pout.fn = "parse_sensor_data"
    => /\ pout.result.sensor_type = Cleartext[7] + 256 * Cleartext[8]
       /\ (SubSeq(Cleartext, 7, 8) = <<4, 0>> => "leak_detected" \in DOMAIN pout.result)

-----------------------------------------------------------------------------
(* Claims about the coordinator, checked under Spec *)

\* the time a record's timestamp was taken
TimeOf(timestamp) == timestamp[2]

Provisional(addr) == StartsWith(addr, DiscoveryPrefix)

\* the advertisement carries WePower manufacturer data of a length that is
\* neither 16 nor 18 bytes
WrongLength(service_info) ==
    /\ BLE_COMPANY_ID \in DOMAIN service_info.manufacturer_data
    /\ Len(service_info.manufacturer_data[BLE_COMPANY_ID]) \notin {16, 18}

\* C4: an advertisement whose WePower manufacturer data has a wrong length
\* leaves the device record unchanged: coordinator.data after
\* _async_handle_bluetooth_event equals coordinator.data before it.
C4_WrongLengthKeepsRecord ==
    [][(lastOp'.op = "adv" /\ WrongLength(ServiceInfos[lastOp'.si]))
          => data' = data]_vars

\* C5: if no advertisement has been received for longer than the interval,
\* then after the next scheduled check the device is unavailable, also when
\* telemetry from an earlier advertisement is still held.
C5_StaleIsUnavailable ==
    ( /\ lastOp.op = "poll"
      /\ Truthy(data) => now - TimeOf(data.timestamp) > FALLBACK_POLL_INTERVAL )
    => last_update_success = FALSE

\* C6: last_update_success goes from False to True only as the result of
\* handling a successfully decoded advertisement; no timer tick, discovery
\* step or other operation sets it True.
C6_OnlyAdvertisementRestores ==
    [][(~last_update_success /\ last_update_success')
          => (lastOp'.op = "adv" /\ lastOp'.exc = "")]_vars

C9_CheckKeepsRecord ==
    [][lastOp'.op = "poll" => (data' = data /\ address' = address /\ entry' = entry)]_vars

\* a check that ran while a record was held
C9_Witness ==
    /\ lastOp.op = "poll"
    /\ Truthy(data)
    /\ last_update_success

\* C10: the address changes at most once, and only from a provisional
\* wepower_discovery_<entry id> handle to a hardware address; once it is a
\* hardware address it never changes again and async_init no longer runs
\* discovery.
C10_ResolvedIsTerminal ==
    [][ /\ address' # address
            => /\ Provisional(address)
               /\ address = DiscoveryPrefix \o entry.entry_id
               /\ ~Provisional(address')
               /\ lastOp'.op = "async_init"
               /\ \E i \in Scannable : address' = StrUpper(ServiceInfos[i].address)
        /\ (lastOp'.op = "async_init" /\ ~Provisional(address))
            => (address' = address /\ entry' = entry /\ data' = data) ]_vars

\* async_init ran on an address that discovery had resolved, with a
\* second qualifying device in the scan
C10_Witness ==
    /\ address = MacB
    /\ pollDue # {}
    /\ lastOp.op = "async_init"
    /\ \E j \in DOMAIN history : history[j] = 4

\* the config entry names a real hardware address
ConfiguredAddress(e) ==
    /\ CONF_ADDRESS \in DOMAIN e.data
    /\ e.data[CONF_ADDRESS] # << >>
    /\ e.data[CONF_ADDRESS] # <<"0", "0", ":", "0", "0", ":", "0", "0", ":",
                                "0", "0", ":", "0", "0", ":", "0", "0">>

\* C11: a coordinator starts Resolved, its address the upper-cased configured
\* address, exactly when the configured address is non-empty and is not the
\* placeholder 00:00:00:00:00:00; otherwise it starts Provisional with the
\* handle wepower_discovery_<entry id>. In both cases the record is empty.
C11_InitialIdentity ==
    lastOp.op = "new"
    => /\ data = EmptyDict
       /\ ConfiguredAddress(entry) <=> ~Provisional(address)
       /\ ConfiguredAddress(entry) => address = StrUpper(entry.data[CONF_ADDRESS])
       /\ ~ConfiguredAddress(entry)
             => address = <<"w", "e", "p", "o", "w", "e", "r", "_", "d", "i", "s", "c",
                            "o", "v", "e", "r", "y", "_">> \o entry.entry_id

\* a coordinator constructed from an address configured in lower case
C11_Witness ==
    /\ lastOp.op = "new"
    /\ entry.data = [address |-> MacALower, decryption_key |-> KeyHex]
    /\ address = MacA
    /\ data = EmptyDict

\* positions in the scan of the devices _is_wepower_device accepts
Qualifying == {j \in DOMAIN Discovered : is_wepower_device(Discovered[j])}

\* C12: when a discovery scan returns several qualifying devices the
\* coordinator resolves to the first qualifying one in scan order; after
\* resolution the address stored in the config entry equals the
\* coordinator's address, the upper-cased address of that device.
C12_FirstQualifyingWins ==
    [][(lastOp'.op = "async_init" /\ Provisional(address) /\ Qualifying # {})
          => /\ \E j \in Qualifying :
                   /\ \A k \in Qualifying : j <= k
                   /\ address' = StrUpper(Discovered[j].address)
             /\ CONF_ADDRESS \in DOMAIN entry'.data
             /\ entry'.data[CONF_ADDRESS] = address']_vars

\* discovery resolved with two qualifying devices in the scan, the one
\* with the 20-byte manufacturer data first
C12_Witness ==
    /\ lastOp.op = "async_init"
    /\ history = <<4, 3>>
    /\ address = MacC
    /\ entry.data = [address |-> MacC, decryption_key |-> KeyHex]

\* the device advertises the 18-byte outer frame under the company id
CarriesOuterFrame(discovery_info) ==
    /\ 22352 \in DOMAIN discovery_info.manufacturer_data
    /\ Len(discovery_info.manufacturer_data[22352]) = 18

\* C13: during discovery every advertisement that carries manufacturer data
\* under company identifier 0x5750 with the 18-byte outer frame qualifies,
\* whatever the device name is; the coordinator's _is_wepower_device
\* accepts every advertisement the configuration flow's accepts.
C13_OuterFrameQualifies ==
    \A j \in DOMAIN Discovered :
       /\ CarriesOuterFrame(Discovered[j]) => is_wepower_device(Discovered[j])
       /\ config_flow_is_wepower_device(Discovered[j]) => is_wepower_device(Discovered[j])

\* C14: a discovery attempt in which no device qualifies leaves the
\* coordinator Provisional: address, record and config entry are unchanged,
\* no listener is notified and no exception escapes async_init.
C14_NotFoundKeepsProvisional ==
    [][(lastOp'.op = "async_init" /\ Provisional(address) /\ Qualifying = {})
          => /\ address' = address
             /\ data' = data
             /\ entry' = entry
             /\ last_update_success' = last_update_success
             /\ pollDue' = pollDue
             /\ lastOp'.notified = 0
             /\ lastOp'.exc = ""]_vars

\* discovery ran over a scan that holds only a device it does not accept
C14_Witness ==
    /\ lastOp.op = "async_init"
    /\ history = <<1>>
    /\ Provisional(address)
    /\ lastOp.exc = ""

-----------------------------------------------------------------------------
(* Further claims about the decode pipeline, checked under ParserSpec *)

\* the frame is 18 bytes long and its last byte is not the CRC8 of the
\* flag byte and the 16 payload bytes
ChecksumMismatch(frame) ==
    /\ Len(frame) = 18
    /\ frame[18] # calculate_crc8(SubSeq(frame, 1, 17))

\* C15: for an advertisement carrying the 18-byte outer frame the CRC8 over
\* the flag byte and the 16 payload bytes is compared with the trailing
\* byte; a mismatch rejects the advertisement (validate_crc reports failure
\* and no telemetry is produced), a match is not rejected.
C15_ChecksumMismatchRejects ==
    /\ (pout.fn = "validate_crc" /\ ChecksumMismatch(pout.arg)) => pout.result = FALSE
    /\ (pout.fn = "validate_crc" /\ Len(pout.arg) = 18 /\ ~ChecksumMismatch(pout.arg))
          => pout.result = TRUE
    /\ (pout.fn = "parse_wepower_manufacturer_data" /\ ChecksumMismatch(pout.arg))
          => "sensor_data" \notin DOMAIN pout.result

\* C16: manufacturer data whose length is neither 16 nor 18 bytes never
\* yields decoded telemetry: _parse_wepower_manufacturer_data returns an
\* empty result and the record built from the advertisement carries no
\* sensor_data.
C16_WrongLengthNoTelemetry ==
    (pout.fn = "parse_wepower_manufacturer_data" /\ Len(pout.arg) \notin {16, 18})
    => /\ pout.result = EmptyDict
       /\ Val(parse_advertisement_data(entry, AdvertisementWith(pout.arg), now)).sensor_data
             = EmptyDict

\* a 20-byte frame whose first 18 bytes are a well-formed plaintext leak
\* report, a valid key configured
C16_Witness ==
    /\ pout.fn = "parse_wepower_manufacturer_data"
    /\ Len(pout.arg) = 20
    /\ pin.flags_byte = 65
    /\ SubSeq(pin.block, 7, 8) = <<0, 4>>
    /\ ValidKeyConfigured
    /\ pout.result = EmptyDict

-----------------------------------------------------------------------------
(* The two fixed tables on their own: the flag bits of WePowerPacketFlags   *)
(* and the device types of _parse_advertisement_data. One input is drawn,   *)
(* the table is applied to it.                                              *)

MaxTypeCode == 10

\* sensor type codes: the table's codes, their neighbours and two codes far
\* outside it
SensorTypeCodes == (0..MaxTypeCode) \cup {99, 1024}

\* the cleartext block that parse_sensor_data reads as sensor type code c
BlockOfType(code) == Block(code \div 256, code % 256, <<1, 0, 0, 1, 0, 0, 0, 0>>)

\* what parse_wepower_packet hands over for a decoded plaintext frame
ParsedPacketOf(code) ==
    ParsePacket(PacketWithFlags([flags_byte |-> PlainFlags, block |-> BlockOfType(code)]),
                EntryDecryptionKey([data |-> [decryption_key |-> KeyHex]]))

\* the bytes written the usual way, two digits each and a space between
SpacedHex(bs) ==
    [i \in 1..(3 * Len(bs) - 1) |->
        IF i % 3 = 0 THEN " " ELSE HexUpper(bs)[i - (i \div 3)]]

\* what a user may type as the decryption key: 32 digits; 30, 31 and 34
\* digits; nothing; 32 characters one of which is no digit; 32 characters
\* with a space inside a byte; eleven bytes with spaces between them and
\* fifteen bytes with a space before and after, 32 characters each
KeyInputs ==
    { KeyHex,
      SubSeq(KeyHex, 1, 30),
      SubSeq(KeyHex, 1, 31),
      KeyHex \o <<"0", "0">>,
      << >>,
      [KeyHex EXCEPT ![5] = "g"],
      [KeyHex EXCEPT ![2] = " "],
      SpacedHex(<<0, 1, 2, 3, 4, 5, 6, 7, 8, 9, 10>>),
      <<" ">> \o SubSeq(KeyHex, 1, 30) \o <<" ">> }

TableInputs ==
    {[kind |-> "key", decryption_key |-> k] : k \in KeyInputs}
    \cup {[kind |-> "flags", flags_byte |-> b] : b \in 0..255}
    \cup {[kind |-> "record", si |-> i, frame |-> LeakFrame, parsed_packet |-> NoneVal] :
             i \in {1, 3}}
    \cup {[kind |-> "record", si |-> i,
            frame |-> Frame18(PlainFlags, BlockOfType(code)),
            parsed_packet |-> ParsedPacketOf(code)] :
             i \in {1, 3}, code \in SensorTypeCodes}

\* _parse_advertisement_data from the base record on, for a given result of
\* the manufacturer data
AssembledRecord(service_info, parsed, professional_id, t) ==
    Typed(Merged(BaseRecord(service_info, professional_id, t), parsed), professional_id)

TableInit ==
    /\ \E e \in Entries : Construct(e)
    /\ now = 0
    /\ pollDue = {}
    /\ history = << >>
    /\ lastOp = [op |-> "new", si |-> 0, exc |-> "", notified |-> 0, down |-> FALSE]
    /\ pin \in TableInputs
    /\ pout = NoParserOutput
    /\ manager = NewManager
    /\ coordinators = << >>
    /\ sensor = NoSensor

ApplyFlags ==
    /\ pin.kind = "flags"
    /\ Applied("WePowerPacketFlags", pin.flags_byte, WePowerPacketFlags(pin.flags_byte))

ApplyDeviceTable ==
    /\ pin.kind = "record"
    /\ Applied("device_type", pin.parsed_packet,
               AssembledRecord(ServiceInfos[pin.si],
                               ManufacturerResult(pin.frame, pin.parsed_packet),
                               <<"Unit-">> \o Format03d(pin.si), now))

\* the user submits the form of the BLE configuration step
ApplyKeyStep ==
    /\ pin.kind = "key"
    /\ Applied("async_step_ble", pin.decryption_key, async_step_ble(pin.decryption_key))

TableNext ==
    \/ ApplyFlags
    \/ ApplyDeviceTable
    \/ ApplyKeyStep

TableSpec == TableInit /\ [][TableNext]_vars

\* C17: for every byte b in 0..255 WePowerPacketFlags(b) yields
\* encrypt_status = bit 0, self_external_power = bit 1, event_counter_lsb =
\* bits 2-3, payload_length = bits 4-7, and the four fields recombine to b.
C17_FlagFields ==
    pout.fn = "WePowerPacketFlags"
    => /\ DOMAIN pout.result =
            {"encrypt_status", "self_external_power", "event_counter_lsb", "payload_length"}
       /\ pout.result.encrypt_status \in 0..1
       /\ pout.result.self_external_power \in 0..1
       /\ pout.result.event_counter_lsb \in 0..3
       /\ pout.result.payload_length \in 0..15
       /\ pout.result.encrypt_status + 2 * pout.result.self_external_power
          + 4 * pout.result.event_counter_lsb + 16 * pout.result.payload_length
          = pout.arg

\* the byte with every bit set
C17_Witness ==
    /\ pout.fn = "WePowerPacketFlags"
    /\ pout.arg = 255
    /\ pout.result.payload_length = 15
    /\ pout.result.event_counter_lsb = 3

\* the sensor type code decoded for the drawn input, -1 when no sensor data
\* was decoded
DecodedTypeCode ==
    IF pin.parsed_packet # NoneVal /\ "sensor_data" \in DOMAIN pin.parsed_packet[1]
    THEN pin.parsed_packet[1].sensor_data.sensor_type
    ELSE -1

\* C18: the record's device_type is a function of the decoded sensor type
\* code alone, through the fixed table 1 temperature_sensor, 2
\* humidity_sensor, 3 pressure_sensor, 4 leak_sensor, 5 vibration_sensor,
\* 6 on_off_switch, 7 light_switch, 8 door_switch, 9 toggle_switch, and
\* unknown for every other code and whenever no sensor data was decoded.
C18_DeviceTypeTable ==
    pout.fn = "device_type"
    => pout.result.device_type =
          CASE DecodedTypeCode = 1 -> "temperature_sensor"
            [] DecodedTypeCode = 2 -> "humidity_sensor"
            [] DecodedTypeCode = 3 -> "pressure_sensor"
            [] DecodedTypeCode = 4 -> "leak_sensor"
            [] DecodedTypeCode = 5 -> "vibration_sensor"
            [] DecodedTypeCode = 6 -> "on_off_switch"
            [] DecodedTypeCode = 7 -> "light_switch"
            [] DecodedTypeCode = 8 -> "door_switch"
            [] DecodedTypeCode = 9 -> "toggle_switch"
            [] OTHER -> "unknown"

\* the last code of the table, on a device that advertises a name
C18_Witness ==
    /\ pout.fn = "device_type"
    /\ pin.si = 3
    /\ DecodedTypeCode = 9
    /\ pout.result.device_type = "toggle_switch"
    /\ pout.result.sensor_data.sensor_type = 9

\* the sensor type code parse_sensor_data reads from the decrypted
\* dictionary of the drawn input
SensorTypeCodeRead == Val(IntBase16(Decrypted(entry, pin)[1].sensor_type))

\* C19: for every sensor type code outside 1..9 decoding succeeds:
\* parse_sensor_data returns a telemetry record, the device is labelled
\* unknown, and the 8 raw payload bytes are present unmodified in the
\* decoded output (the payload of the decrypted data).
C19_UnknownTypeDecodes ==
    (pout.fn = "parse_sensor_data" /\ SensorTypeCodeRead \notin 1..9)
    => /\ DOMAIN pout.result =
            {"sensor_type", "event_counter_lsb", "payload_length", "encrypt_status",
             "power_status"}
       /\ pout.result.sensor_type = SensorTypeCodeRead
       /\ AssembledRecord(AdvertisementWith(Frame18(pin.flags_byte, pin.block)),
                          [sensor_data |-> pout.result], <<"Unit-001">>, now).device_type
             = "unknown"
       /\ Len(Cleartext) = 16
       /\ Val(BytesFromHex(Decrypted(entry, pin)[1].payload)) = SubSeq(Cleartext, 9, 16)

\* type code 99 with a payload that is not all zero
C19_Witness ==
    /\ pout.fn = "parse_sensor_data"
    /\ pout.result.sensor_type = 99
    /\ SubSeq(Cleartext, 9, 12) = <<5, 255, 255, 2>>

\* the dictionary holds the five fields of the 16 bytes, the byte strings
\* as upper-case hex
FieldsOf(dict, bytes) ==
    /\ Val(BytesFromHex(dict.src_id)) = SubSeq(bytes, 1, 3)
    /\ Val(BytesFromHex(dict.nwk_id)) = SubSeq(bytes, 4, 5)
    /\ dict.fw_version = bytes[6]
    /\ Val(BytesFromHex(dict.sensor_type)) = SubSeq(bytes, 7, 8)
    /\ Val(BytesFromHex(dict.payload)) = SubSeq(bytes, 9, 16)
    /\ dict.src_id = StrUpper(dict.src_id)
    /\ dict.payload = StrUpper(dict.payload)

\* C20: decrypt_payload on a packet whose flags mark the payload as already
\* plaintext (encrypt_status = 1) returns src_id, nwk_id, fw_version,
\* sensor_type and payload equal to bytes 0..2, 3..4, 5, 6..7 and 8..15 of
\* the unmodified input, for every key value, without applying the cipher;
\* with encrypt_status = 0 the cipher is applied to the block.
C20_PlaintextPassThrough ==
    pout.fn = "decrypt_payload"
    => IF pin.flags_byte % 2 = 1
       THEN /\ pout.result # NoneVal
            /\ FieldsOf(pout.result[1], pin.block)
       ELSE IF EntryDecryptionKey(entry) = NoneVal
                 \/ Raised(AesEcbDecrypt(EntryDecryptionKey(entry)[1], pin.block))
            THEN pout.result = NoneVal
            ELSE /\ pout.result # NoneVal
                 /\ FieldsOf(pout.result[1],
                             Val(AesEcbDecrypt(EntryDecryptionKey(entry)[1], pin.block)))

\* a plaintext block passed through although the configured key has a size
\* the cipher would refuse
C20_Witness ==
    /\ pout.fn = "decrypt_payload"
    /\ pin.flags_byte = 65
    /\ EntryDecryptionKey(entry) = Some(<<0, 1, 2, 3>>)
    /\ pout.result # NoneVal
    /\ pout.result[1].payload = HexUpper(SubSeq(pin.block, 9, 16))

\* the drawn frame is marked encrypted and the entry gives no usable key:
\* none stored, one that is not hex, or one that is not 16 bytes long
Undecryptable ==
    /\ WePowerPacketFlags(pin.flags_byte).encrypt_status = 0
    /\ ~ValidKeyConfigured

C23_ParserNeverRaises ==
    pout.fn = "parse_wepower_packet"
    => /\ pout.exc = ""
       /\ (pout.result = NoneVal \/ "company_id" \in DOMAIN pout.result[1])
       /\ Self = NewCoordinator(entry)
       /\ lastOp.op = "new"

\* ten bytes of manufacturer data parsed with a key of four bytes
C23_Witness ==
    /\ pout.fn = "parse_wepower_packet"
    /\ Len(pout.arg) = 10
    /\ EntryDecryptionKey(entry) # NoneVal
    /\ Len(EntryDecryptionKey(entry)[1]) = 4
    /\ pout.exc = ""
    /\ pout.result = NoneVal

-----------------------------------------------------------------------------
(* Claims about the coordinator's bookkeeping, checked under Spec *)

\* everything the coordinator holds, the time stamp of its record set aside
StateBesidesTimestamp ==
    <<address, last_update_success, entry,
      IF "timestamp" \in DOMAIN data THEN [data EXCEPT !.timestamp = NoneVal] ELSE data>>

\* C22: the coordinator keeps a decode-failure counter that goes up by
\* exactly one for each advertisement that fails to decode and is reset by
\* a decoded one: an advertisement handled without decoded telemetry
\* leaves the coordinator holding a different count, so its state differs
\* from the state before in more than the record's time stamp.
C22_FailureIsCounted ==
    [][(/\ lastOp'.op = "adv"
        /\ (lastOp'.exc # "" \/ data'.sensor_data = EmptyDict))
       => StateBesidesTimestamp' # StateBesidesTimestamp]_vars

-----------------------------------------------------------------------------
(* Claims about the device manager, checked under ManagerSpec and          *)
(* SubscriberSpec                                                          *)

\* the callbacks registered for the device and for the general topic
RegisteredFor(m, device_id) ==
    {m._subscribers[k][i] :
        <<k, i>> \in {<<k, i>> \in ({device_id, "general"} \cap DOMAIN m._subscribers)
                                    \X (1..MaxRegistrations) :
                         i <= Len(m._subscribers[k])}}

\* C25: every callback registered for device d through
\* subscribe_to_device_updates, and every callback registered through
\* subscribe_to_updates, is invoked with the updated record each time the
\* manager records an update for d: once the update's notification has
\* run, each of them has been called with that record.
C25_SubscribersInvoked ==
    manager.op.op = "_async_notify_device_update"
    => \A callback \in RegisteredFor(manager, manager.op.id) :
          \E k \in DOMAIN manager.called :
             /\ manager.called[k].callback = callback
             /\ manager.called[k].ref = manager.sent[Len(manager.sent)].ref

\* the number of SIGNAL_DEVICE_ADDED sends that carried the device
TimesAdded(m, device_id) ==
    Cardinality({i \in DOMAIN m.sent : /\ m.sent[i].signal = SIGNAL_DEVICE_ADDED
                                       /\ m.sent[i].seen.device_id = device_id})

\* C26: over any sequence of add_device calls and device messages,
\* SIGNAL_DEVICE_ADDED is emitted at most once per device identity.
C26_AddedAtMostOnce ==
    \A i \in DOMAIN manager.heap : TimesAdded(manager, manager.heap[i].device_id) <= 1

\* how often the list holds the callback
Occurrences(l, callback) == Cardinality({i \in DOMAIN l : l[i] = callback})

\* C27: calling an unsubscribe function removes exactly one occurrence of
\* its callback from its list; the other callbacks of that list, a second
\* registration of the same callback, and the lists of every other key
\* stay as they were.
C27_UnsubscribeRemovesOne ==
    [][manager'.op.op = "unsubscribe"
       => /\ manager'.op.exc = ""
          /\ DOMAIN manager'._subscribers = DOMAIN manager._subscribers
          /\ \A k \in DOMAIN manager._subscribers \ {manager'.op.id} :
                manager'._subscribers[k] = manager._subscribers[k]
          /\ \A c \in Callbacks :
                Occurrences(manager'._subscribers[manager'.op.id], c)
                = Occurrences(manager._subscribers[manager'.op.id], c)
                  - (IF c = manager'.op.callback THEN 1 ELSE 0)]_vars

\* an unsubscribe call after which the same callback is still registered
\* once for that device and the general list still holds its callback
C27_Witness ==
    /\ manager.op.op = "unsubscribe"
    /\ manager.op.id = "sensor-1"
    /\ manager.op.exc = ""
    /\ manager._subscribers["sensor-1"] = <<manager.op.callback>>
    /\ "general" \in DOMAIN manager._subscribers
    /\ Len(manager._subscribers["general"]) = 1

\* C28: a device record that was handed to a listener is never modified in
\* place afterwards; every later update stores a new record, so the object
\* a listener was given still holds what it held when it was given.
C28_HandedRecordsKeepTheirContent ==
    \A i \in DOMAIN manager.sent :
       manager.heap[manager.sent[i].ref] = manager.sent[i].seen

-----------------------------------------------------------------------------
(* Claims about two coordinators, checked under PairSpec *)

\* C29: with two coordinators, an advertisement (handled or failed), a
\* scheduled check, a discovery attempt or a shutdown on one of them never
\* changes the data, address or last_update_success of the other; and
\* whatever happened on the other before, an advertisement whose parsing
\* does not raise is processed: its record is stored, the flag set and the
\* listeners notified.
C29_CoordinatorsAreIsolated ==
    [][lastOp'.op \in {"adv", "poll", "async_init", "shutdown"}
       => /\ \A k \in {1, 2} \ {lastOp'.c} :
                /\ coordinators'[k].data = coordinators[k].data
                /\ coordinators'[k].address = coordinators[k].address
                /\ coordinators'[k].last_update_success = coordinators[k].last_update_success
          /\ (lastOp'.op = "adv" /\ lastOp'.si # 5)
             => /\ lastOp'.exc = ""
                /\ lastOp'.notified = 1
                /\ coordinators'[lastOp'.c].last_update_success
                /\ coordinators'[lastOp'.c].data.address
                      = ServiceInfos[lastOp'.si].address]_vars

\* the second coordinator has just processed an advertisement while the
\* first is marked failed and holds no record
C29_Witness ==
    /\ lastOp.op = "adv"
    /\ lastOp.c = 2
    /\ lastOp.exc = ""
    /\ coordinators[2].last_update_success
    /\ coordinators[2].data.address = MacC
    /\ ~coordinators[1].last_update_success
    /\ coordinators[1].data = EmptyDict

-----------------------------------------------------------------------------
(* Claims about the configuration flow, checked under TableSpec *)

\* C30: the BLE configuration step accepts a decryption key if and only if
\* it consists of exactly 32 hexadecimal characters, so every key kept for
\* a config entry decodes to exactly 16 bytes; any other input is answered
\* with an error form and no key is kept.
C30_KeyAcceptedIffThirtyTwoHexDigits ==
    pout.fn = "async_step_ble"
    => /\ (pout.result.errors = "")
          <=> (Len(pout.arg) = 32 /\ \A i \in DOMAIN pout.arg : IsHexChar(pout.arg[i]))
       /\ pout.result.errors = ""
          => Len(Val(BytesFromHex(pout.result.decryption_key[1]))) = 16
       /\ pout.result.errors # "" => pout.result.decryption_key = NoneVal

-----------------------------------------------------------------------------
(* Claims about the checksum, checked under ParserSpec *)

\* the bytes with bit b of byte i inverted
FlipBit(bs, i, b) == [bs EXCEPT ![i] = BitXor[@][2 ^ b]]

\* C31: for every 17-byte input (flag byte, then 16 payload bytes) and
\* every single bit position in it, flipping that bit changes the value
\* _calculate_crc8 returns; the value is always in 0..255.
C31_CrcDetectsSingleBitFlip ==
    pout.fn = "_calculate_crc8"
    => /\ pout.result \in 0..255
       /\ \A i \in 1..17, b \in 0..7 :
             calculate_crc8(FlipBit(pout.arg, i, b)) # pout.result

\* the checksum of a 17-byte input with a non-zero payload, itself non-zero
C31_Witness ==
    /\ pout.fn = "_calculate_crc8"
    /\ Len(pout.arg) = 17
    /\ pout.arg[1] = 65
    /\ pout.arg[10] = 5
    /\ pout.result # 0

-----------------------------------------------------------------------------
(* Claims about the coordinator's shutdown and start, checked under Spec *)

C33_InitRegistersCheck ==
    [][(/\ lastOp'.op = "async_init"
        /\ lastOp'.exc = ""
        /\ now + FALLBACK_POLL_INTERVAL <= MaxTime)
       => (now + FALLBACK_POLL_INTERVAL) \in pollDue']_vars

-----------------------------------------------------------------------------
(* Claims about the binary sensor entity, checked under SensorSpec *)

\* C34: an advertisement that yields no decoded sensor data (the handler
\* raised, or the record it stored has empty sensor_data) leaves the binary
\* sensor's is_on as it was.
C34_UndecodedKeepsIsOn ==
    [][(/\ lastOp'.op = "adv"
        /\ (lastOp'.exc # "" \/ data'.sensor_data = EmptyDict))
       => sensor'._attr_is_on = sensor._attr_is_on]_vars

-----------------------------------------------------------------------------
(* Claims about the device manager's dedup set, checked under LifecycleSpec *)

\* the signals dispatched by the step
NewlySent(signal) ==
    {i \in (Len(manager.sent) + 1)..Len(manager'.sent) : manager'.sent[i].signal = signal}

-----------------------------------------------------------------------------
(* Claims about the stopped device manager, checked under UnloadSpec *)

\* C38: once stop() has returned, a round of the discovery loop changes no
\* device's status and schedules no notification, so no device-update or
\* new-device signal comes from it.
C38_StoppedLoopIsSilent ==
    [][(manager.stopped /\ manager'.op.op = "_update_device_statuses")
       => /\ manager'.heap = manager.heap
          /\ manager'.tasks = manager.tasks]_vars

-----------------------------------------------------------------------------
(* Claims about repeated unsubscription, checked under RepeatSpec *)

\* C36: calling an unsubscribe function again raises nothing and leaves
\* every list of registered callbacks as it was, also when the callback is
\* registered more than once.
C36_SecondUnsubscribeIsNoOp ==
    [][manager'.op.op = "unsubscribe again"
       => /\ manager'.op.exc = ""
          /\ manager'._subscribers = manager._subscribers]_vars

-----------------------------------------------------------------------------
(* Claims about dongle messages, checked under DongleSpec *)

\* the dispatcher calls that passed the object at ref
SentWith(m, ref) == {i \in DOMAIN m.sent : m.sent[i].ref = ref}

\* C37: when the event loop has run everything scheduled, each dongle
\* message has led to exactly one notification carrying the record built
\* from it, and each device message to exactly one update notification
\* carrying its own data.
C37_NotificationCarriesOwnRecord ==
    manager.tasks = << >>
    => /\ \A r \in DongleRecords(manager) : Cardinality(SentWith(manager, r)) = 1
       /\ \A r \in DeviceMessageRecords(manager) :
             Cardinality({i \in SentWith(manager, r) :
                             manager.sent[i].signal = SIGNAL_DEVICE_UPDATED}) = 1

=============================================================================
